---- MODULE Spec2Model ----
(***************************************************************************)
(* The graph engine of dag_rte (package dag, type DAG) over its record     *)
(* store: AddNode, ApproveNode with weight propagation, UpdateNode.        *)
(* One action per public method; each action is the whole method, run      *)
(* under d.mux.                                                            *)
(***************************************************************************)
EXTENDS Integers, Sequences, FiniteSets, TLC

VARIABLES store, pre, now, last, origin, nops, flight

vars == <<store, pre, now, last, origin, nops, flight>>

(***************************************************************************)
(* Bounds of the model.                                                    *)
(***************************************************************************)
\* calls made in one behaviour of Spec
MaxOps == 2
\* calls made in one behaviour of SpecPair
MaxPairOps == 3
\* calls made in one behaviour of SpecChain
MaxChainOps == 4
\* records built in one behaviour of SpecFresh
MaxFresh == 5
\* the last reading of the clock
MaxNow == 1
\* requests served in one behaviour of SpecHttp
MaxHttpOps == 2
\* calls made in one behaviour of SpecValidate and of SpecDrift
MaxValidateOps == 3
\* records built in one behaviour of SpecQuery
MaxQueryRecords == 3
\* records built in one behaviour of SpecTree
MaxTreeRecords == 4
\* calls made in one behaviour of SpecCheckpoint
MaxCheckpointOps == 4
\* calls begun in one behaviour of SpecMux
MaxMuxOps == 5
\* records built in one behaviour of SpecFault
MaxFaultRecords == 4

\* record identifiers the callers of SpecFresh use, in the order of use
FreshIds == <<"A", "B", "C", "D", "E", "F">>

\* the keys of the model in the order of the LevelDB iterator (bytewise):
\* the record ids, then the keys PutCheckpoint writes
KeyOrder == FreshIds \o <<"checkpoint:cp1", "checkpoint:cp2">>

\* record identifiers the callers of Spec and SpecChain use
Ids == {"A", "B", "C"}

\* the weight, cumulative_weight and created_at values a request may carry
CandValues == {0, 1}

\* record identifiers the callers of SpecPair use
PairIds == {"A", "B"}

\* parents lists the callers send: empty, one id, two ids (repeats allowed)
ParentListsOver(ids) ==
    {<<>>} \cup {<<a>> : a \in ids} \cup {<<a, b>> : a \in ids, b \in ids}

ParentLists == ParentListsOver(Ids)

Range(s) == {s[i] : i \in DOMAIN s}

Count(s, x) == Cardinality({i \in DOMAIN s : s[i] = x})

Max(a, b) == IF a > b THEN a ELSE b

(***************************************************************************)
(* models.Node.  The store maps an id to the record PutNode wrote under    *)
(* it; DOMAIN store is the set of stored ids (GetNode fails elsewhere).    *)
(***************************************************************************)
Node(ps, w, cw, t) ==
    [parents |-> ps, weight |-> w, cumulative_weight |-> cw, created_at |-> t]

\* a call's candidate: the decoded request body
Candidate(id, ps, w, cw, t) ==
    [id |-> id, parents |-> ps, weight |-> w, cumulative_weight |-> cw,
     created_at |-> t]

PutNode(st, id, rec) ==
    [x \in DOMAIN st \cup {id} |-> IF x = id THEN rec ELSE st[x]]

\* children[p] of propagateWeights, as a set: the stored records naming p
ChildrenOf(st, p) == {c \in DOMAIN st : p \in Range(st[c].parents)}

\* parents[n] of propagateWeights, as a set
ParentsOf(st, n) == IF n \in DOMAIN st THEN Range(st[n].parents) ELSE {}

(***************************************************************************)
(* Reachability over the child edges and over the parent edges.            *)
(***************************************************************************)
RECURSIVE CloseChildren(_, _)
CloseChildren(st, S) ==
    LET next == S \cup UNION {ChildrenOf(st, x) : x \in S}
    IN  IF next = S THEN S ELSE CloseChildren(st, next)

\* the records reached from n by one or more child edges
Descendants(st, n) == CloseChildren(st, ChildrenOf(st, n))

\* markDependenciesAffected: nodeID and every id reached from it by parent
\* edges, added to the ids already marked
RECURSIVE markDependenciesAffected(_, _)
markDependenciesAffected(st, affected) ==
    LET next == affected \cup UNION {ParentsOf(st, x) : x \in affected}
    IN  IF next = affected THEN affected
        ELSE markDependenciesAffected(st, next)

\* calculateDescendantWeight(n) recurses through children[...] with no
\* visited set: it returns only if no child-edge cycle is reachable from n;
\* otherwise the goroutine's stack overflows
Diverges(st, n) ==
    \E m \in Descendants(st, n) \cup {n} : m \in Descendants(st, m)

\* calculateDescendantWeight of updateCumulativeWeight: every entry of
\* children[n] adds the child's weight and the child's own descendant
\* weight; a child that lists n k times stands k times in children[n]
RECURSIVE calculateDescendantWeight(_, _), SumChildren(_, _, _)
calculateDescendantWeight(st, n) == SumChildren(st, n, ChildrenOf(st, n))

SumChildren(st, n, todo) ==
    IF todo = {} THEN 0
    ELSE LET c == CHOOSE x \in todo : TRUE
         IN  Count(st[c].parents, n)
                 * (st[c].weight + calculateDescendantWeight(st, c))
             + SumChildren(st, n, todo \ {c})

\* updateCumulativeWeight for every id of S
updateCumulativeWeight(st, S) ==
    [x \in DOMAIN st |->
        IF x \in S
        THEN [st[x] EXCEPT !.cumulative_weight =
                  st[x].weight + calculateDescendantWeight(st, x)]
        ELSE st[x]]

(***************************************************************************)
(* checkForCircularReferences: the depth-first search hasCycle, with its   *)
(* visited and recStack maps.  It follows a stored record's child edges    *)
(* only from an id that is one of parentIDs.                               *)
(***************************************************************************)
RECURSIVE hasCycle(_, _, _, _, _), hasCycleScan(_, _, _, _, _)
hasCycle(st, parentIDs, currentID, visited, recStack) ==
    IF currentID \in recStack THEN [cycle |-> TRUE, visited |-> visited]
    ELSE IF currentID \in visited THEN [cycle |-> FALSE, visited |-> visited]
    ELSE IF currentID \in Range(parentIDs)
         THEN hasCycleScan(st, parentIDs, ChildrenOf(st, currentID),
                           visited \cup {currentID},
                           recStack \cup {currentID})
         ELSE [cycle |-> FALSE, visited |-> visited \cup {currentID}]

\* the loop over allNodes: the existing nodes naming currentID, one by one
hasCycleScan(st, parentIDs, todo, visited, recStack) ==
    IF todo = {} THEN [cycle |-> FALSE, visited |-> visited]
    ELSE LET c == CHOOSE x \in todo : TRUE
             r == hasCycle(st, parentIDs, c, visited, recStack)
         IN  IF r.cycle THEN r
             ELSE hasCycleScan(st, parentIDs, todo \ {c}, r.visited, recStack)

\* the loop over parentIDs, from index i on, visited shared between roots
RECURSIVE hasCycleFrom(_, _, _, _)
hasCycleFrom(st, parentIDs, i, visited) ==
    IF i > Len(parentIDs) THEN FALSE
    ELSE LET r == hasCycle(st, parentIDs, parentIDs[i], visited, {})
         IN  r.cycle \/ hasCycleFrom(st, parentIDs, i + 1, r.visited)

\* a variant of checkForCircularReferences: a parent listed twice counts as
\* a cycle
checkForCircularReferencesRepeats(st, parentIDs) ==
    \/ hasCycleFrom(st, parentIDs, 1, {})
    \/ \E i \in DOMAIN parentIDs, j \in DOMAIN parentIDs :
           i # j /\ parentIDs[i] = parentIDs[j]

\* TRUE: the "circular reference detected" error
checkForCircularReferences(st, parentIDs) ==
    hasCycleFrom(st, parentIDs, 1, {})

(***************************************************************************)
(* The checks of AddNode and ApproveNode.                                  *)
(***************************************************************************)
\* a variant of AddNodeExists: the existence check left out
AddNodeExistsNever(st, node) == FALSE

\* AddNode: GetNode(node.ID) found a record
AddNodeExists(st, node) == node.id \in DOMAIN st

\* a variant of SelfReference: only the first parent is compared
SelfReferenceFirstOnly(node) ==
    Len(node.parents) > 0 /\ node.parents[1] = node.id

\* ApproveNode: some pid of node.Parents equals node.ID
SelfReference(node) == node.id \in Range(node.parents)

\* a variant of MissingParents: only the first parent is looked up
MissingParentsFirstOnly(st, parentIDs) ==
    {i \in DOMAIN parentIDs : i = 1 /\ parentIDs[i] \notin DOMAIN st}

\* ApproveNode: the indexes of the parents GetNode does not find
MissingParents(st, parentIDs) ==
    {i \in DOMAIN parentIDs : parentIDs[i] \notin DOMAIN st}

\* the pid the "parent node ... does not exist" error names: the first one
FirstMissing(st, parentIDs) ==
    LET miss == MissingParents(st, parentIDs)
    IN  parentIDs[CHOOSE i \in miss : \A j \in miss : i <= j]

(***************************************************************************)
(* propagateWeights.  The outcomes are a set: when the recomputation of    *)
(* some affected record does not return, the process dies of a stack       *)
(* overflow after the writes made so far; the affected ids are walked in   *)
(* Go's map order, so any of the other affected records may have been      *)
(* rewritten by then.                                                      *)
(***************************************************************************)
\* "Update direct weights first": Weight++ once per entry of parentIDs
IncrementParents(st, parentIDs) ==
    [x \in DOMAIN st |->
        [st[x] EXCEPT !.weight = @ + Count(parentIDs, x)]]

\* a variant of AffectedNodes: the direct parents only, no ancestors
AffectedNodesDirectOnly(st, parentIDs) == Range(parentIDs) \cap DOMAIN st

\* the ids marked affected for which GetNode finds a record
AffectedNodes(st, parentIDs) ==
    markDependenciesAffected(st, Range(parentIDs)) \cap DOMAIN st

propagateWeights(st, parentIDs) ==
    LET stW      == IncrementParents(st, parentIDs)
        affected == AffectedNodes(stW, parentIDs)
        stuck    == {n \in affected : Diverges(stW, n)}
    IN  IF stuck = {}
        THEN {[store |-> updateCumulativeWeight(stW, affected),
               crash |-> FALSE]}
        ELSE {[store |-> updateCumulativeWeight(stW, S), crash |-> TRUE] :
                 S \in SUBSET (affected \ stuck)}

(***************************************************************************)
(* The calls.  last is the call just made and what it returned, pre the    *)
(* store as that call found it, origin the method that first stored each   *)
(* id, now the clock nowMillis reads, nops the number of calls made.       *)
(* flight is the state of the calls that have begun and not returned:      *)
(* who holds d.mux, and where an ApproveNode and a validation stand when   *)
(* they are followed step by step; the actions that are whole calls leave  *)
(* it alone.                                                               *)
(***************************************************************************)
Return(op, node, result, missing) ==
    [op |-> op, id |-> node.id, parents |-> node.parents, result |-> result,
     missing |-> missing]

\* nowMillis: the clock has not moved since the last reading, or has
Stamps == {now} \cup (IF now < MaxNow THEN {now + 1} ELSE {})

\* no call of the kind is in flight
Idle == [pc |-> "idle"]

\* the goroutines that call the engine concurrently
Clients == {"c1", "c2"}

\* a client that has called nothing yet
NoCall ==
    [pc |-> "idle", op |-> "-", node |-> Candidate("-", << >>, 0, 0, 0),
     arg |-> 0, at |-> [x \in {} |-> x],
     overlap |-> FALSE, result |-> "-", work |-> Idle]

Init ==
    /\ store = [x \in {} |-> x]
    /\ pre = [x \in {} |-> x]
    /\ now = 0
    /\ last = [op |-> "none", id |-> "-", parents |-> <<>>,
               result |-> "none", missing |-> "-"]
    /\ origin = [i \in DOMAIN KeyOrder |-> "none"]
    /\ nops = 0
    /\ flight = [mux |-> "free", approve |-> Idle, validate |-> Idle,
                 sync |-> "free", calls |-> [c \in Clients |-> NoCall]]

\* the index of id in KeyOrder
IdIndex(id) == CHOOSE i \in DOMAIN KeyOrder : KeyOrder[i] = id

OriginOf(id) == origin[IdIndex(id)]

AddNode(node) ==
    /\ nops' = nops + 1
    /\ flight' = flight
    /\ pre' = store
    /\ IF AddNodeExists(store, node)
       THEN /\ last' = Return("AddNode", node, "AlreadyExists", "-")
            /\ UNCHANGED <<store, now, origin>>
       ELSE \E t \in Stamps :
            /\ store' = PutNode(store, node.id, Node(node.parents, 0, 0, t))
            /\ now' = t
            /\ origin' = [origin EXCEPT ![IdIndex(node.id)] = "AddNode"]
            /\ last' = Return("AddNode", node, "OK", "-")

\* a variant of ApproveNode: the record is persisted before the parents are
\* looked up
ApproveNodePutFirst(node) ==
    /\ nops' = nops + 1
    /\ flight' = flight
    /\ pre' = store
    /\ IF SelfReference(node)
       THEN /\ last' = Return("ApproveNode", node, "SelfReference", "-")
            /\ UNCHANGED <<store, now, origin>>
       ELSE IF checkForCircularReferences(store, node.parents)
       THEN /\ last' = Return("ApproveNode", node, "CycleDetected", "-")
            /\ UNCHANGED <<store, now, origin>>
       ELSE \E t \in Stamps :
            LET put == PutNode(store, node.id,
                           Node(node.parents, 0, node.cumulative_weight, t))
            IN  /\ now' = t
                /\ origin' = IF OriginOf(node.id) = "none"
                             THEN [origin EXCEPT
                                      ![IdIndex(node.id)] = "ApproveNode"]
                             ELSE origin
                /\ IF MissingParents(store, node.parents) # {}
                   THEN /\ store' = put
                        /\ last' = Return("ApproveNode", node,
                                       "ParentNotFound",
                                       FirstMissing(store, node.parents))
                   ELSE \E out \in propagateWeights(put, node.parents) :
                        /\ store' = out.store
                        /\ last' = Return("ApproveNode", node,
                                       IF out.crash THEN "StackOverflow"
                                       ELSE "OK", "-")

ApproveNode(node) ==
    /\ nops' = nops + 1
    /\ flight' = flight
    /\ pre' = store
    /\ IF SelfReference(node)
       THEN /\ last' = Return("ApproveNode", node, "SelfReference", "-")
            /\ UNCHANGED <<store, now, origin>>
       ELSE IF checkForCircularReferences(store, node.parents)
       THEN /\ last' = Return("ApproveNode", node, "CycleDetected", "-")
            /\ UNCHANGED <<store, now, origin>>
       ELSE IF MissingParents(store, node.parents) # {}
       THEN /\ last' = Return("ApproveNode", node, "ParentNotFound",
                              FirstMissing(store, node.parents))
            /\ UNCHANGED <<store, now, origin>>
       ELSE \E t \in Stamps :
            LET put == PutNode(store, node.id,
                           Node(node.parents, 0, node.cumulative_weight, t))
            IN  \E out \in propagateWeights(put, node.parents) :
                /\ store' = out.store
                /\ now' = t
                /\ origin' = IF OriginOf(node.id) = "none"
                             THEN [origin EXCEPT
                                      ![IdIndex(node.id)] = "ApproveNode"]
                             ELSE origin
                /\ last' = Return("ApproveNode", node,
                                  IF out.crash THEN "StackOverflow" ELSE "OK",
                                  "-")

\* a variant of UpdateNode: the incoming record replaces the stored one
UpdateNodeOverwrites(node) ==
    /\ nops' = nops + 1
    /\ flight' = flight
    /\ pre' = store
    /\ IF node.id \notin DOMAIN store
       THEN /\ last' = Return("UpdateNode", node, "NotExist", "-")
            /\ UNCHANGED <<store, now, origin>>
       ELSE /\ store' = PutNode(store, node.id,
                    Node(node.parents, node.weight, node.cumulative_weight,
                         node.created_at))
            /\ last' = Return("UpdateNode", node, "OK", "-")
            /\ UNCHANGED <<now, origin>>

UpdateNode(node) ==
    /\ nops' = nops + 1
    /\ flight' = flight
    /\ pre' = store
    /\ IF node.id \notin DOMAIN store
       THEN /\ last' = Return("UpdateNode", node, "NotExist", "-")
            /\ UNCHANGED <<store, now, origin>>
       ELSE /\ store' = PutNode(store, node.id,
                    Node(node.parents,
                         Max(node.weight, store[node.id].weight),
                         node.cumulative_weight,
                         Max(node.created_at, store[node.id].created_at)))
            /\ last' = Return("UpdateNode", node, "OK", "-")
            /\ UNCHANGED <<now, origin>>

(***************************************************************************)
(* Spec: the three methods, called with any id and parents list.  The      *)
(* candidates of AddNode and ApproveNode carry one value in the three      *)
(* number fields (the methods overwrite all but cumulative_weight); those  *)
(* of UpdateNode vary weight and created_at apart, which it compares with  *)
(* the stored ones.                                                        *)
(***************************************************************************)
AddNodeCalls ==
    {Candidate(id, ps, v, v, v) :
        id \in Ids, ps \in ParentLists, v \in CandValues}

ApproveNodeCalls ==
    {Candidate(id, ps, v, v, v) :
        id \in Ids, ps \in ParentLists, v \in CandValues}

UpdateNodeCalls ==
    {Candidate(id, ps, w, w, t) :
        id \in Ids, ps \in ParentLists, w \in CandValues, t \in CandValues}

Next ==
    \/ \E node \in AddNodeCalls : nops < MaxOps /\ AddNode(node)
    \/ \E node \in ApproveNodeCalls : nops < MaxOps /\ ApproveNode(node)
    \/ \E node \in UpdateNodeCalls : nops < MaxOps /\ UpdateNode(node)

Spec == Init /\ [][Next]_vars

(***************************************************************************)
(* SpecPair: the three methods as in Spec, called with two ids only, one   *)
(* call more in a behaviour.                                               *)
(***************************************************************************)
OverPair(calls) ==
    {node \in calls :
        node.id \in PairIds /\ node.parents \in ParentListsOver(PairIds)}

PairNext ==
    \/ \E node \in OverPair(AddNodeCalls) :
           nops < MaxPairOps /\ AddNode(node)
    \/ \E node \in OverPair(ApproveNodeCalls) :
           nops < MaxPairOps /\ ApproveNode(node)
    \/ \E node \in OverPair(UpdateNodeCalls) :
           nops < MaxPairOps /\ UpdateNode(node)

SpecPair == Init /\ [][PairNext]_vars

(***************************************************************************)
(* SpecChain: the requests of the chain scenarios, as the routed handlers  *)
(* pass them on: AddNode of an id alone, ApproveNode of an id with one     *)
(* parent, every other field of the body absent (zero).                    *)
(***************************************************************************)
ChainNext ==
    \/ \E id \in Ids :
           nops < MaxChainOps /\ AddNode(Candidate(id, <<>>, 0, 0, 0))
    \/ \E id \in Ids, p \in Ids :
           nops < MaxChainOps /\ ApproveNode(Candidate(id, <<p>>, 0, 0, 0))

SpecChain == Init /\ [][ChainNext]_vars

(***************************************************************************)
(* SpecFresh: every call names an id not used before (the next one of      *)
(* FreshIds) and, for ApproveNode, one stored parent or two different      *)
(* stored parents (listed in the order of FreshIds); every other field of  *)
(* the body is absent (zero).                                              *)
(***************************************************************************)
NextFresh == FreshIds[Cardinality(DOMAIN store) + 1]

FreshParentLists ==
    {<<a>> : a \in DOMAIN store}
        \cup {<<FreshIds[ij[1]], FreshIds[ij[2]]>> :
                  ij \in {x \in (DOMAIN FreshIds) \X (DOMAIN FreshIds) :
                             /\ x[1] < x[2]
                             /\ x[2] <= Cardinality(DOMAIN store)}}

FreshNext ==
    \/ /\ Cardinality(DOMAIN store) < MaxFresh
       /\ AddNode(Candidate(NextFresh, <<>>, 0, 0, 0))
    \/ \E ps \in FreshParentLists :
           /\ Cardinality(DOMAIN store) < MaxFresh
           /\ ApproveNode(Candidate(NextFresh, ps, 0, 0, 0))

SpecFresh == Init /\ [][FreshNext]_vars

(***************************************************************************)
(* SpecHttp: the routed handlers of POST /nodes and POST /nodes/approve.   *)
(* Each decodes the body into a models.Node and hands it to the engine;    *)
(* Handler.ApproveNode first turns away a body whose parents list is       *)
(* empty, with status 400 and no call of the engine.                       *)
(***************************************************************************)
HandlerAddNode(node) == AddNode(node)

\* a variant of HandlerApproveNode: no check of the parents list
HandlerApproveNodeUnchecked(node) == ApproveNode(node)

HandlerApproveNode(node) ==
    IF Len(node.parents) = 0
    THEN /\ nops' = nops + 1
         /\ flight' = flight
         /\ pre' = store
         /\ last' = Return("HandlerApproveNode", node, "NoParents", "-")
         /\ UNCHANGED <<store, now, origin>>
    ELSE ApproveNode(node)

\* the bodies of the requests: id and parents, the other fields absent
HttpBodies == {Candidate(id, ps, 0, 0, 0) : id \in Ids, ps \in ParentLists}

HttpNext ==
    \/ \E node \in HttpBodies : nops < MaxHttpOps /\ HandlerAddNode(node)
    \/ \E node \in HttpBodies : nops < MaxHttpOps /\ HandlerApproveNode(node)

SpecHttp == Init /\ [][HttpNext]_vars

(***************************************************************************)
(* Handler.ValidateDAGConsistency (GET /sync/validate).  It reads all      *)
(* records, builds the children map and recomputes every record's          *)
(* cumulative weight with a closure that is the same code as the one of    *)
(* updateCumulativeWeight, so the same operator stands for it.  The        *)
(* report's validation_time and duration are left out.  The closure does   *)
(* not return when a child-edge cycle is reachable: the process dies and   *)
(* no report is sent.                                                      *)
(***************************************************************************)
\* expectedCumulative of the record n
expectedCumulative(st, n) == st[n].weight + calculateDescendantWeight(st, n)

\* the entries appended to inconsistencies
Inconsistencies(st) ==
    {[node_id             |-> n,
      expected_cumulative |-> expectedCumulative(st, n),
      actual_cumulative   |-> st[n].cumulative_weight,
      difference          |-> expectedCumulative(st, n)
                                  - st[n].cumulative_weight] :
        n \in {x \in DOMAIN st :
                  st[x].cumulative_weight # expectedCumulative(st, x)}}

\* a variant of ValidationResult: every record is counted as valid
ValidationResultCountsAll(st) ==
    LET total   == Cardinality(DOMAIN st)
        bad     == Inconsistencies(st)
    IN  [total_nodes        |-> total,
         valid_nodes        |-> total,
         inconsistent_nodes |-> Cardinality(bad),
         inconsistencies    |-> bad,
         consistency_percentage |->
             IF total = 0 THEN [num |-> 100, den |-> 1]
             ELSE [num |-> total * 100, den |-> total],
         status |-> IF bad # {} THEN "inconsistent" ELSE "consistent"]

\* validationResult; consistency_percentage is the quotient num / den
ValidationResult(st) ==
    LET total   == Cardinality(DOMAIN st)
        bad     == Inconsistencies(st)
        valid   == total - Cardinality(bad)
    IN  [total_nodes        |-> total,
         valid_nodes        |-> valid,
         inconsistent_nodes |-> Cardinality(bad),
         inconsistencies    |-> bad,
         consistency_percentage |->
             IF total = 0 THEN [num |-> 100, den |-> 1]
             ELSE [num |-> valid * 100, den |-> total],
         status |-> IF bad # {} THEN "inconsistent" ELSE "consistent"]

\* what a query hands back: the fields of Return, the report, and the
\* call made just before (after)
QueryReturn(op, result, report) ==
    [op |-> op, id |-> "-", parents |-> <<>>, result |-> result,
     missing |-> "-", report |-> report,
     after |-> [op |-> last.op, id |-> last.id]]

NoReport == [status |-> "none"]

\* a variant of ValidateDAGConsistency: it writes the recomputed values back
ValidateDAGConsistencyRepairs ==
    /\ nops' = nops + 1
    /\ flight' = flight
    /\ pre' = store
    /\ IF \E n \in DOMAIN store : Diverges(store, n)
       THEN /\ last' = QueryReturn("ValidateDAGConsistency", "StackOverflow",
                                   NoReport)
            /\ UNCHANGED <<store, now, origin>>
       ELSE /\ last' = QueryReturn("ValidateDAGConsistency",
                                   ValidationResult(store).status,
                                   ValidationResult(store))
            /\ store' = updateCumulativeWeight(store, DOMAIN store)
            /\ UNCHANGED <<now, origin>>

ValidateDAGConsistency ==
    /\ nops' = nops + 1
    /\ flight' = flight
    /\ pre' = store
    /\ last' = IF \E n \in DOMAIN store : Diverges(store, n)
               THEN QueryReturn("ValidateDAGConsistency", "StackOverflow",
                                NoReport)
               ELSE QueryReturn("ValidateDAGConsistency",
                                ValidationResult(store).status,
                                ValidationResult(store))
    /\ UNCHANGED <<store, now, origin>>

(***************************************************************************)
(* SpecValidate: AddNode and ApproveNode called with two ids, any parents  *)
(* lists and field values, and the consistency validation.                 *)
(***************************************************************************)
ValidateNext ==
    \/ \E node \in OverPair(AddNodeCalls) :
           nops < MaxValidateOps /\ AddNode(node)
    \/ \E node \in OverPair(ApproveNodeCalls) :
           nops < MaxValidateOps /\ ApproveNode(node)
    \/ nops < MaxValidateOps /\ ValidateDAGConsistency

SpecValidate == Init /\ [][ValidateNext]_vars

(***************************************************************************)
(* SpecDrift: SpecValidate and a write to the store from outside the       *)
(* engine, which replaces the cumulative_weight of one stored record.      *)
(***************************************************************************)
\* the values written from outside
DriftValues == 0..3

OverwriteCumulativeWeight(id, v) ==
    /\ id \in DOMAIN store
    /\ nops' = nops + 1
    /\ flight' = flight
    /\ pre' = store
    /\ store' = PutNode(store, id, [store[id] EXCEPT !.cumulative_weight = v])
    /\ last' = [op |-> "Overwrite", id |-> id, parents |-> <<>>,
                result |-> "OK", missing |-> "-"]
    /\ UNCHANGED <<now, origin>>

DriftNext ==
    \/ \E node \in OverPair(AddNodeCalls) :
           nops < MaxValidateOps /\ AddNode(node)
    \/ \E node \in OverPair(ApproveNodeCalls) :
           nops < MaxValidateOps /\ ApproveNode(node)
    \/ \E id \in PairIds, v \in DriftValues :
           nops < MaxValidateOps /\ OverwriteCumulativeWeight(id, v)
    \/ nops < MaxValidateOps /\ ValidateDAGConsistency

SpecDrift == Init /\ [][DriftNext]_vars

(***************************************************************************)
(* The queries of the engine.  GetAllNodes of the repository walks the     *)
(* LevelDB iterator, which yields the keys in ascending order; the ids of  *)
(* the model stand in that order in KeyOrder.                              *)
(***************************************************************************)
\* the stored ids in the order of enumeration
GetAllNodes(st) ==
    [i \in 1..Cardinality(DOMAIN st) |->
        CHOOSE x \in DOMAIN st :
            Cardinality({y \in DOMAIN st : IdIndex(y) < IdIndex(x)}) = i - 1]

\* a variant of HighestWeight: a later record of equal weight replaces
\* highest
RECURSIVE HighestWeightLastWins(_, _, _, _)
HighestWeightLastWins(st, nodes, i, highest) ==
    IF i > Len(nodes) THEN highest
    ELSE HighestWeightLastWins(st, nodes, i + 1,
             IF st[nodes[i]].weight >= st[highest].weight
             THEN nodes[i] ELSE highest)

\* the loop of GetHighestWeightNode from index i on
RECURSIVE HighestWeight(_, _, _, _)
HighestWeight(st, nodes, i, highest) ==
    IF i > Len(nodes) THEN highest
    ELSE HighestWeight(st, nodes, i + 1,
             IF st[nodes[i]].weight > st[highest].weight
             THEN nodes[i] ELSE highest)

\* the loop of GetHighestCumulativeWeightNode from index i on
RECURSIVE HighestCumulativeWeight(_, _, _, _)
HighestCumulativeWeight(st, nodes, i, highest) ==
    IF i > Len(nodes) THEN highest
    ELSE HighestCumulativeWeight(st, nodes, i + 1,
             IF st[nodes[i]].cumulative_weight
                    > st[highest].cumulative_weight
             THEN nodes[i] ELSE highest)

\* a query's report of the record it returns
NodeReport(st, id) == [node_id |-> id, node |-> st[id]]

GetHighestWeightNode ==
    /\ nops' = nops + 1
    /\ flight' = flight
    /\ pre' = store
    /\ last' = LET nodes == GetAllNodes(store)
               IN  IF Len(nodes) = 0
                   THEN QueryReturn("GetHighestWeightNode",
                                    "no nodes in DAG", NoReport)
                   ELSE QueryReturn("GetHighestWeightNode", "OK",
                            NodeReport(store,
                                HighestWeight(store, nodes, 1, nodes[1])))
    /\ UNCHANGED <<store, now, origin>>

\* a variant of GetHighestCumulativeWeightNode: no error on an empty store
GetHighestCumulativeWeightNodeNoError ==
    /\ nops' = nops + 1
    /\ flight' = flight
    /\ pre' = store
    /\ last' = QueryReturn("GetHighestCumulativeWeightNode", "OK", NoReport)
    /\ UNCHANGED <<store, now, origin>>

GetHighestCumulativeWeightNode ==
    /\ nops' = nops + 1
    /\ flight' = flight
    /\ pre' = store
    /\ last' = LET nodes == GetAllNodes(store)
               IN  IF Len(nodes) = 0
                   THEN QueryReturn("GetHighestCumulativeWeightNode",
                                    "no nodes in DAG", NoReport)
                   ELSE QueryReturn("GetHighestCumulativeWeightNode", "OK",
                            NodeReport(store,
                                HighestCumulativeWeight(store, nodes, 1,
                                                        nodes[1])))
    /\ UNCHANGED <<store, now, origin>>

(***************************************************************************)
(* TipSelectionMCMC(alpha, maxSteps).  The random draws of the walk are    *)
(* choices: the outcome of the method is any of the records the walk can   *)
(* stand on after its last step.  alpha is modelled by its sign.           *)
(***************************************************************************)
\* the walk perturbs the candidate when step % 100 = 0
PerturbEvery == 100

\* the signs of alpha
Alphas == {-1, 0, 1}

\* the step budgets: none, one step, and one more than a perturbation period
StepBudgets == {0, 1, PerturbEvery + 1}

\* tips: the records with no children
Tips(st) == {n \in DOMAIN st : ChildrenOf(st, n) = {}}

\* calculateCumulativeWeight, the same recursion as calculateDescendantWeight
\* a variant of calculateCumulativeWeight: the stored cumulative weight
calculateCumulativeWeightStored(st, n) ==
    IF n \notin DOMAIN st THEN 0 ELSE st[n].cumulative_weight

calculateCumulativeWeight(st, n) ==
    IF n \notin DOMAIN st THEN 0
    ELSE st[n].weight + calculateDescendantWeight(st, n)

\* the records walkToTip can pass through from nodeID
WalkNodes(st, nodeID) == CloseChildren(st, {nodeID})

\* a variant of walkToTip: the walk stays on nodeID
walkToTipStays(st, nodeID) == {nodeID} \cap DOMAIN st

\* the records walkToTip(nodeID) can return
walkToTip(st, nodeID) ==
    {t \in WalkNodes(st, nodeID) \cap DOMAIN st : ChildrenOf(st, t) = {}}

\* walkToTip(nodeID) can reach a record from which every line of children
\* leads round a cycle: its loop does not end
WalkLoops(st, nodeID) ==
    \E m \in WalkNodes(st, nodeID) : walkToTip(st, m) = {}

\* the candidates after the proposal of one step: any tip is proposed, the
\* proposal is accepted when rnd.Float64() < exp(alpha * difference), which
\* can fail only when alpha * difference < 0
AfterProposal(st, alpha, cur) ==
    Tips(st) \cup
        {c \in {cur} :
            \E p \in Tips(st) :
                alpha * (calculateCumulativeWeight(st, p)
                             - calculateCumulativeWeight(st, cur)) < 0}

\* the children the perturbation can walk down from, for candidate c
PerturbStarts(st, c) ==
    UNION {ChildrenOf(st, parentID) :
               parentID \in Range(st[c].parents) \cap DOMAIN st}

\* the candidates after the perturbation of one step
AfterPerturbation(st, step, c) ==
    IF step % PerturbEvery = 0 /\ Len(st[c].parents) > 0
    THEN (IF Range(st[c].parents) \subseteq DOMAIN st THEN {} ELSE {c})
             \cup UNION {walkToTip(st, k) : k \in PerturbStarts(st, c)}
    ELSE {c}

\* the perturbation of this step can fail to return
PerturbationLoops(st, step, c) ==
    /\ step % PerturbEvery = 0
    /\ \E k \in PerturbStarts(st, c) : WalkLoops(st, k)

\* one pass of the loop of TipSelectionMCMC.  w.nodes are the records the
\* candidate can be, w.steps counts the passes made, w.loops tells whether
\* a pass so far can fail to return
WalkStep(st, alpha, w, step) ==
    LET proposed == UNION {AfterProposal(st, alpha, c) : c \in w.nodes}
    IN  [nodes |-> UNION {AfterPerturbation(st, step, c) : c \in proposed},
         steps |-> w.steps + 1,
         loops |-> w.loops \/ \E c \in proposed :
                                 PerturbationLoops(st, step, c)]

\* the passes from, from + 1, ..., to - 1 of the loop, one after the other
\* (the range is halved to keep the evaluation shallow)
RECURSIVE WalkSpan(_, _, _, _, _)
WalkSpan(st, alpha, w, from, to) ==
    IF to <= from THEN w
    ELSE IF to = from + 1 THEN WalkStep(st, alpha, w, from)
    ELSE CHOOSE r \in {WalkSpan(st, alpha, x, (from + to) \div 2, to) :
                          x \in {WalkSpan(st, alpha, w, from,
                                          (from + to) \div 2)}} : TRUE

\* for step := 0; step < maxSteps; step++, started with the candidates cands
Walk(st, alpha, cands, maxSteps) ==
    WalkSpan(st, alpha, [nodes |-> cands, steps |-> 0, loops |-> FALSE],
             0, maxSteps)

\* a variant of TipOutcomes: the walk starts from the first tip
TipOutcomesFromFirstTip(st, alpha, maxSteps) ==
    IF Tips(st) = {}
    THEN [nodes |-> DOMAIN st, steps |-> 0, loops |-> FALSE]
    ELSE Walk(st, alpha,
              {CHOOSE t \in Tips(st) :
                   \A u \in Tips(st) : IdIndex(t) <= IdIndex(u)},
              maxSteps)

\* what TipSelectionMCMC can do on a store with records
TipOutcomes(st, alpha, maxSteps) ==
    IF Tips(st) = {}
    THEN [nodes |-> DOMAIN st, steps |-> 0, loops |-> FALSE]
    ELSE Walk(st, alpha, Tips(st), maxSteps)

TipSelectionMCMC(alpha, maxSteps) ==
    /\ nops' = nops + 1
    /\ flight' = flight
    /\ pre' = store
    /\ IF DOMAIN store = {}
       THEN last' = QueryReturn("TipSelectionMCMC", "no nodes in DAG",
                                NoReport)
       ELSE \E out \in {TipOutcomes(store, alpha, maxSteps)} :
                \/ \E n \in out.nodes :
                      last' = QueryReturn("TipSelectionMCMC", "OK",
                                  [node_id  |-> n,
                                   node     |-> store[n],
                                   steps    |-> out.steps,
                                   maxSteps |-> maxSteps,
                                   possible |-> out.nodes])
                \/ /\ out.loops
                   /\ last' = QueryReturn("TipSelectionMCMC", "Hang",
                                          NoReport)
    /\ UNCHANGED <<store, now, origin>>

(***************************************************************************)
(* SpecQuery: a graph is built record by record, each call naming the next *)
(* unused id of FreshIds, and queried.  AddNode is called with no parents, *)
(* with stored parents, or with the new id itself among the parents (it    *)
(* stores what it is sent); ApproveNode with stored parents.  The other    *)
(* fields of the bodies are absent (zero).                                 *)
(***************************************************************************)
QueryAddParentLists ==
    {<<>>, <<NextFresh>>} \cup {<<a>> : a \in DOMAIN store}
        \cup {<<a, NextFresh>> : a \in DOMAIN store}

\* a behaviour builds up to MaxQueryRecords records within one reading of
\* the clock, then asks
QueryMayBuild ==
    /\ Cardinality(DOMAIN store) < MaxQueryRecords
    /\ nops < MaxQueryRecords
    /\ now' = now

QueryMayAsk == last.op \in {"none", "AddNode", "ApproveNode"}

QueryNext ==
    \/ \E ps \in QueryAddParentLists :
           QueryMayBuild /\ AddNode(Candidate(NextFresh, ps, 0, 0, 0))
    \/ \E ps \in FreshParentLists :
           QueryMayBuild /\ ApproveNode(Candidate(NextFresh, ps, 0, 0, 0))
    \/ QueryMayAsk /\ GetHighestWeightNode
    \/ QueryMayAsk /\ GetHighestCumulativeWeightNode
    \/ \E alpha \in Alphas, maxSteps \in StepBudgets :
           QueryMayAsk /\ TipSelectionMCMC(alpha, maxSteps)

SpecQuery == Init /\ [][QueryNext]_vars

(***************************************************************************)
(* SpecTree: roots are added and records approved with one stored parent   *)
(* each, every call naming the next unused id of FreshIds, within one      *)
(* reading of the clock; then a tip is selected.                           *)
(***************************************************************************)
TreeMayBuild ==
    /\ Cardinality(DOMAIN store) < MaxTreeRecords
    /\ last.op \in {"none", "AddNode", "ApproveNode"}
    /\ now' = now

TreeNext ==
    \/ TreeMayBuild /\ AddNode(Candidate(NextFresh, <<>>, 0, 0, 0))
    \/ \E p \in DOMAIN store :
           TreeMayBuild /\ ApproveNode(Candidate(NextFresh, <<p>>, 0, 0, 0))
    \/ \E alpha \in Alphas, maxSteps \in StepBudgets :
           QueryMayAsk /\ TipSelectionMCMC(alpha, maxSteps)

SpecTree == Init /\ [][TreeNext]_vars

(***************************************************************************)
(* The checkpoints of the repository.  NodeRepository keeps records and    *)
(* checkpoints in one LevelDB: PutNode writes under the key node.ID,       *)
(* PutCheckpoint under "checkpoint:" + cp.ID, and GetLatestCheckpoint      *)
(* decodes as a checkpoint every value whose key begins with               *)
(* "checkpoint:".  In SpecCheckpoint the store holds both kinds of value.  *)
(***************************************************************************)
\* models.Checkpoint
Checkpoint(id, t, h, n) ==
    [checkpoint_id |-> id, timestamp |-> t, root_hash |-> h, node_count |-> n]

\* the checkpoint ids of the model and the timestamps they carry
CheckpointIds == {"cp1", "cp2"}

CheckpointStamps == {1, 2}

\* "checkpoint:" + id
CheckpointKey(id) == IF id = "cp1" THEN "checkpoint:cp1" ELSE "checkpoint:cp2"

\* len(key) >= 11 && key[:11] == "checkpoint:"
HasCheckpointPrefix(key) == key \in {"checkpoint:cp1", "checkpoint:cp2"}

\* the value was written by PutCheckpoint
IsCheckpointValue(v) == "checkpoint_id" \in DOMAIN v

\* json.Unmarshal into a models.Checkpoint: the JSON of a record has none of
\* the checkpoint's fields and decodes, without error, to the zero value
UnmarshalCheckpoint(v) ==
    IF IsCheckpointValue(v) THEN v ELSE Checkpoint("", 0, "", 0)

PutCheckpoint(st, cp) ==
    [x \in DOMAIN st \cup {CheckpointKey(cp.checkpoint_id)} |->
        IF x = CheckpointKey(cp.checkpoint_id) THEN cp ELSE st[x]]

\* the keys of st in the order of the iterator
IterKeys(st) ==
    [i \in 1..Cardinality(DOMAIN st) |->
        CHOOSE x \in DOMAIN st :
            Cardinality({y \in DOMAIN st : IdIndex(y) < IdIndex(x)}) = i - 1]

NoCheckpoint == [checkpoint_id |-> "nil"]

\* the loop of GetLatestCheckpoint from the i-th key on
RECURSIVE LatestFrom(_, _, _, _)
LatestFrom(st, keys, i, latest) ==
    IF i > Len(keys) THEN latest
    ELSE LatestFrom(st, keys, i + 1,
             IF /\ HasCheckpointPrefix(keys[i])
                /\ (\/ latest = NoCheckpoint
                    \/ UnmarshalCheckpoint(st[keys[i]]).timestamp
                           > latest.timestamp)
             THEN UnmarshalCheckpoint(st[keys[i]])
             ELSE latest)

\* NodeRepository.PutCheckpoint, called with the checkpoint cp
StoreCheckpoint(cp) ==
    /\ nops' = nops + 1
    /\ flight' = flight
    /\ pre' = store
    /\ store' = PutCheckpoint(store, cp)
    /\ last' = [op |-> "PutCheckpoint", id |-> cp.checkpoint_id,
                parents |-> <<>>, result |-> "OK", missing |-> "-"]
    /\ UNCHANGED <<now, origin>>

\* NodeRepository.GetLatestCheckpoint; NotFound stands for the nil it
\* returns when no key begins with "checkpoint:" (the handler of
\* GET /checkpoints/latest answers 404 to it)
GetLatestCheckpoint ==
    /\ nops' = nops + 1
    /\ flight' = flight
    /\ pre' = store
    /\ last' = LET cp == LatestFrom(store, IterKeys(store), 1, NoCheckpoint)
               IN  IF cp = NoCheckpoint
                   THEN QueryReturn("GetLatestCheckpoint", "NotFound",
                                    NoReport)
                   ELSE QueryReturn("GetLatestCheckpoint", "OK", cp)
    /\ UNCHANGED <<store, now, origin>>

(***************************************************************************)
(* SpecCheckpoint: checkpoints are written through the repository, records *)
(* are added through the engine, whose caller chooses the id, and the      *)
(* latest checkpoint is asked for.                                         *)
(***************************************************************************)
\* json.Unmarshal of a stored value into a Node: a record's value carries
\* its id and fields; a checkpoint's value has none of the Node's fields and
\* decodes, without error, to the zero Node
UnmarshalNode(key, v) ==
    IF IsCheckpointValue(v) THEN Candidate("", << >>, 0, 0, 0)
    ELSE Candidate(key, v.parents, v.weight, v.cumulative_weight,
                   v.created_at)

\* NodeRepository.GetAllNodes: every key of the iterator, decoded as a Node
RepoGetAllNodes(st) ==
    [i \in 1..Len(IterKeys(st)) |->
        UnmarshalNode(IterKeys(st)[i], st[IterKeys(st)[i]])]

\* the call DAG.GetAllNodes, answered with the repository's list
GetAllNodesCall ==
    /\ nops' = nops + 1
    /\ flight' = flight
    /\ pre' = store
    /\ last' = QueryReturn("GetAllNodes", "OK",
                           [nodes |-> RepoGetAllNodes(store)])
    /\ UNCHANGED <<store, now, origin>>

CheckpointNext ==
    \/ \E id \in CheckpointIds, t \in CheckpointStamps :
           /\ nops < MaxCheckpointOps
           /\ StoreCheckpoint(Checkpoint(id, t, "hash", 0))
    \/ \E id \in {"A", "checkpoint:cp1"} :
           /\ nops < MaxCheckpointOps
           /\ now' = now
           /\ AddNode(Candidate(id, <<>>, 0, 0, 0))
    \/ nops < MaxCheckpointOps /\ GetLatestCheckpoint
    \/ nops < MaxCheckpointOps /\ GetAllNodesCall

SpecCheckpoint == Init /\ [][CheckpointNext]_vars

(***************************************************************************)
(* ApproveNode over a store whose calls can fail.  f.put tells whether the *)
(* PutNode of the new record fails, f.enumerate whether the GetAllNodes of *)
(* propagateWeights fails, f.read and f.write are the ids for which        *)
(* GetNode and PutNode fail while the weights are propagated.  The reads   *)
(* of the checks before the new record is written do not fail here.        *)
(***************************************************************************)
\* calculateDescendantWeight with failing reads: "if err != nil { continue }"
\* leaves out the child and everything below it
RECURSIVE DescendantWeightSkipping(_, _, _), SumChildrenSkipping(_, _, _, _)
DescendantWeightSkipping(st, n, skip) ==
    SumChildrenSkipping(st, n, ChildrenOf(st, n) \ skip, skip)

SumChildrenSkipping(st, n, todo, skip) ==
    IF todo = {} THEN 0
    ELSE LET c == CHOOSE x \in todo : TRUE
         IN  Count(st[c].parents, n)
                 * (st[c].weight + DescendantWeightSkipping(st, c, skip))
             + SumChildrenSkipping(st, n, todo \ {c}, skip)

\* the loop "Update direct weights first": a parent whose GetNode fails is
\* skipped, one whose PutNode fails keeps its stored weight
IncrementParentsFaulty(st, parentIDs, f) ==
    [x \in DOMAIN st |->
        IF x \in f.read \cup f.write THEN st[x]
        ELSE [st[x] EXCEPT !.weight = @ + Count(parentIDs, x)]]

\* updateCumulativeWeight for every id of S: it returns an error, and writes
\* nothing, for an id whose GetNode or PutNode fails
updateCumulativeWeightFaulty(st, S, f) ==
    [x \in DOMAIN st |->
        IF x \in S \ (f.read \cup f.write)
        THEN [st[x] EXCEPT !.cumulative_weight =
                  st[x].weight + DescendantWeightSkipping(st, x, f.read)]
        ELSE st[x]]

\* propagateWeights: the store it leaves, the error it returns (err) and
\* whether it logged a warning (logged)
propagateWeightsFaulty(st, parentIDs, f) ==
    IF Len(parentIDs) = 0
    THEN [store |-> st, err |-> FALSE, logged |-> FALSE]
    ELSE IF f.enumerate
    THEN [store |-> st, err |-> TRUE, logged |-> FALSE]
    ELSE LET stW      == IncrementParentsFaulty(st, parentIDs, f)
             affected == markDependenciesAffected(st, Range(parentIDs))
         IN  [store  |-> updateCumulativeWeightFaulty(stW, affected, f),
              err    |-> FALSE,
              logged |-> affected \cap (f.read \cup f.write) # {}]

\* what ApproveNode hands back over the failing store: the fields of Return,
\* whether the new record was written (persisted) and whether a failure of
\* the propagation was logged (logged)
FaultReturn(node, result, persisted, logged) ==
    [op |-> "ApproveNode", id |-> node.id, parents |-> node.parents,
     result |-> result, missing |-> "-", persisted |-> persisted,
     logged |-> logged]

\* a variant of ApproveNodeFaulty: the error of propagateWeights and the
\* failures it logged are returned
ApproveNodeFaultyReturnsError(node, f) ==
    /\ nops' = nops + 1
    /\ flight' = flight
    /\ pre' = store
    /\ IF SelfReference(node)
       THEN /\ last' = FaultReturn(node, "SelfReference", FALSE, FALSE)
            /\ UNCHANGED <<store, now, origin>>
       ELSE IF checkForCircularReferences(store, node.parents)
       THEN /\ last' = FaultReturn(node, "CycleDetected", FALSE, FALSE)
            /\ UNCHANGED <<store, now, origin>>
       ELSE IF MissingParents(store, node.parents) # {}
       THEN /\ last' = FaultReturn(node, "ParentNotFound", FALSE, FALSE)
            /\ UNCHANGED <<store, now, origin>>
       ELSE IF f.put
       THEN /\ last' = FaultReturn(node, "StoreError", FALSE, FALSE)
            /\ UNCHANGED <<store, now, origin>>
       ELSE \E t \in Stamps :
            LET put == PutNode(store, node.id,
                           Node(node.parents, 0, node.cumulative_weight, t))
                out == propagateWeightsFaulty(put, node.parents, f)
            IN  /\ store' = out.store
                /\ now' = t
                /\ origin' = IF OriginOf(node.id) = "none"
                             THEN [origin EXCEPT
                                      ![IdIndex(node.id)] = "ApproveNode"]
                             ELSE origin
                /\ last' = FaultReturn(node,
                               IF out.err \/ out.logged THEN "StoreError"
                               ELSE "OK",
                               TRUE, out.err \/ out.logged)

ApproveNodeFaulty(node, f) ==
    /\ nops' = nops + 1
    /\ flight' = flight
    /\ pre' = store
    /\ IF SelfReference(node)
       THEN /\ last' = FaultReturn(node, "SelfReference", FALSE, FALSE)
            /\ UNCHANGED <<store, now, origin>>
       ELSE IF checkForCircularReferences(store, node.parents)
       THEN /\ last' = FaultReturn(node, "CycleDetected", FALSE, FALSE)
            /\ UNCHANGED <<store, now, origin>>
       ELSE IF MissingParents(store, node.parents) # {}
       THEN /\ last' = FaultReturn(node, "ParentNotFound", FALSE, FALSE)
            /\ UNCHANGED <<store, now, origin>>
       ELSE IF f.put
       THEN /\ last' = FaultReturn(node, "StoreError", FALSE, FALSE)
            /\ UNCHANGED <<store, now, origin>>
       ELSE \E t \in Stamps :
            LET put == PutNode(store, node.id,
                           Node(node.parents, 0, node.cumulative_weight, t))
                out == propagateWeightsFaulty(put, node.parents, f)
            IN  /\ store' = out.store
                /\ now' = t
                /\ origin' = IF OriginOf(node.id) = "none"
                             THEN [origin EXCEPT
                                      ![IdIndex(node.id)] = "ApproveNode"]
                             ELSE origin
                /\ last' = FaultReturn(node, "OK", TRUE,
                                       out.err \/ out.logged)

(***************************************************************************)
(* SpecFault: records are built as in SpecFresh, within one reading of the *)
(* clock, the approvals over a store whose calls can fail.  The stores are *)
(* acyclic, so every recomputation returns.                                *)
(***************************************************************************)
\* the ids a kind of call fails for during one ApproveNode: none, or one of
\* the stored ids
FailingIds == {{}} \cup {{x} : x \in DOMAIN store}

\* the failures of one call of ApproveNode
Faults ==
    [put : BOOLEAN, enumerate : BOOLEAN, read : FailingIds,
     write : FailingIds]

FaultNext ==
    \/ /\ Cardinality(DOMAIN store) < MaxFaultRecords
       /\ now' = now
       /\ AddNode(Candidate(NextFresh, <<>>, 0, 0, 0))
    \/ \E ps \in FreshParentLists, f \in Faults :
           /\ Cardinality(DOMAIN store) < MaxFaultRecords
           /\ nops < MaxFaultRecords
           /\ now' = now
           /\ ApproveNodeFaulty(Candidate(NextFresh, ps, 0, 0, 0), f)

SpecFault == Init /\ [][FaultNext]_vars

(***************************************************************************)
(* The calls under d.mux, followed step by step.  AddNode, ApproveNode,    *)
(* UpdateNode, GetNode and GetAllNodes begin with d.mux.Lock() and hold    *)
(* the mutex until they return; GetHighestWeightNode,                      *)
(* GetHighestCumulativeWeightNode and TipSelectionMCMC take no mutex: each *)
(* reads the records once, with the GetAllNodes of the repository, whose   *)
(* iterator walks one snapshot of the database.  An                        *)
(* ApproveNode in flight stands after the write of its new record          *)
(* ("increment": the parents' weights are being raised, one PutNode a      *)
(* step), among the recomputations ("recompute": one updateCumulativeWeight *)
(* a step, the affected ids in Go's map order) or before its return        *)
(* ("return").  flight.approve.before is the store as the call found it.   *)
(***************************************************************************)
\* d.mux.Lock() returns: no other call holds the mutex
Lock == flight.mux = "free"

\* ApproveNode from d.mux.Lock() to the PutNode of the new record and the
\* maps of propagateWeights; a rejected call returns at once
ApproveLock(node) ==
    /\ Lock
    /\ flight.approve.pc = "idle"
    /\ nops' = nops + 1
    /\ IF SelfReference(node)
       THEN /\ last' = Return("ApproveNode", node, "SelfReference", "-")
            /\ pre' = store
            /\ UNCHANGED <<store, now, origin, flight>>
       ELSE IF checkForCircularReferences(store, node.parents)
       THEN /\ last' = Return("ApproveNode", node, "CycleDetected", "-")
            /\ pre' = store
            /\ UNCHANGED <<store, now, origin, flight>>
       ELSE IF MissingParents(store, node.parents) # {}
       THEN /\ last' = Return("ApproveNode", node, "ParentNotFound",
                              FirstMissing(store, node.parents))
            /\ pre' = store
            /\ UNCHANGED <<store, now, origin, flight>>
       ELSE \E t \in Stamps :
            /\ store' = PutNode(store, node.id,
                            Node(node.parents, 0, node.cumulative_weight, t))
            /\ now' = t
            /\ origin' = IF OriginOf(node.id) = "none"
                         THEN [origin EXCEPT
                                  ![IdIndex(node.id)] = "ApproveNode"]
                         ELSE origin
            /\ flight' = [flight EXCEPT
                   !.mux = "ApproveNode",
                   !.approve =
                       [pc |-> IF Len(node.parents) = 0 THEN "return"
                               ELSE "increment",
                        node |-> node, before |-> store, i |-> 1,
                        affected |-> {}]]
            /\ UNCHANGED <<last, pre>>

\* one pass of the loop "Update direct weights first"; after the last one
\* the affected ids are marked
ApproveIncrement ==
    /\ flight.approve.pc = "increment"
    /\ LET a   == flight.approve
           pid == a.node.parents[a.i]
       IN  /\ store' = PutNode(store, pid,
                           [store[pid] EXCEPT !.weight = @ + 1])
           /\ flight' = [flight EXCEPT !.approve =
                  IF a.i < Len(a.node.parents)
                  THEN [a EXCEPT !.i = a.i + 1]
                  ELSE [a EXCEPT !.pc = "recompute",
                                 !.affected =
                                     AffectedNodes(store, a.node.parents)]]
    /\ UNCHANGED <<pre, now, last, origin, nops>>

\* one pass of the loop over affectedNodes
ApproveRecompute ==
    /\ flight.approve.pc = "recompute"
    /\ \E n \in flight.approve.affected :
           /\ store' = updateCumulativeWeight(store, {n})
           /\ flight' = [flight EXCEPT !.approve =
                  [@ EXCEPT !.affected = @ \ {n},
                            !.pc = IF flight.approve.affected = {n}
                                   THEN "return" ELSE "recompute"]]
    /\ UNCHANGED <<pre, now, last, origin, nops>>

\* ApproveNode returns nil and the deferred d.mux.Unlock() runs; a validation
\* in flight has one more store to have been serialized against (seen)
ApproveUnlock ==
    /\ flight.approve.pc = "return"
    /\ last' = Return("ApproveNode", flight.approve.node, "OK", "-")
    /\ pre' = flight.approve.before
    /\ flight' = [flight EXCEPT
           !.mux = "free",
           !.approve = Idle,
           !.validate = IF flight.validate.pc = "scan"
                        THEN [@ EXCEPT !.seen = @ \cup {store}]
                        ELSE @]
    /\ UNCHANGED <<store, now, origin, nops>>

\* DAG.GetNode(id)
GetNode(id) ==
    /\ nops' = nops + 1
    /\ flight' = flight
    /\ pre' = store
    /\ last' = IF id \in DOMAIN store
               THEN QueryReturn("GetNode", "OK", NodeReport(store, id))
               ELSE QueryReturn("GetNode", "NotFound", NoReport)
    /\ UNCHANGED <<store, now, origin>>

\* a variant of LockedGetNode: the lookup reads the store without the mutex
LockedGetNodeNoLock(id) == GetNode(id)

\* DAG.GetNode with its d.mux.Lock()
LockedGetNode(id) == Lock /\ GetNode(id)

(***************************************************************************)
(* Handler.ValidateDAGConsistency, followed step by step.  It holds        *)
(* h.syncMutex, which no method of DAG takes; it reads the records with    *)
(* DAG.GetAllNodes (the snapshot snap, d.mux held for that call), then     *)
(* every record's expected value with one DAG.GetNode for each child       *)
(* visited, d.mux taken and released by each of them.  todo are the reads  *)
(* still to make for record nodes[i], acc its expected value so far, bad   *)
(* the mismatches found, seen the stores the run has to have been          *)
(* serialized against: the one it began on and the one every approval      *)
(* that returned since has left.                                           *)
(***************************************************************************)
\* x, c times
Repeat(x, c) == [j \in 1..c |-> x]

\* children[n] of the handler: the records naming n, in the order of
\* allNodes, once for every entry of their parents that is n
RECURSIVE ChildListFrom(_, _, _, _)
ChildListFrom(snap, nodes, k, n) ==
    IF k > Len(nodes) THEN <<>>
    ELSE Repeat(nodes[k], Count(snap[nodes[k]].parents, n))
             \o ChildListFrom(snap, nodes, k + 1, n)

\* the children calculateDescendantWeight(n) calls GetNode for, in order
RECURSIVE Reads(_, _), ReadsFrom(_, _, _)
Reads(snap, n) ==
    CHOOSE r \in {ReadsFrom(snap, kids, 1) :
                     kids \in {ChildListFrom(snap, nodes, 1, n) :
                                  nodes \in {GetAllNodes(snap)}}} : TRUE

ReadsFrom(snap, kids, k) ==
    IF k > Len(kids) THEN <<>>
    ELSE <<kids[k]>> \o Reads(snap, kids[k]) \o ReadsFrom(snap, kids, k + 1)

\* validationResult for total records and the mismatches bad
ScanResult(total, bad) ==
    [total_nodes        |-> total,
     valid_nodes        |-> total - Cardinality(bad),
     inconsistent_nodes |-> Cardinality(bad),
     inconsistencies    |-> bad,
     consistency_percentage |->
         IF total = 0 THEN [num |-> 100, den |-> 1]
         ELSE [num |-> (total - Cardinality(bad)) * 100, den |-> total],
     status |-> IF bad # {} THEN "inconsistent" ELSE "consistent"]

\* the steps of the loop over allNodes that read nothing from the store: a
\* record whose reads are all made is compared and the next one is begun
RECURSIVE Settle(_)
Settle(v) ==
    IF v.i > Len(v.nodes) THEN [v EXCEPT !.pc = "done"]
    ELSE IF v.todo # <<>> THEN v
    ELSE LET n == v.nodes[v.i]
             j == v.i + 1
         IN  CHOOSE r \in {Settle(w) : w \in {[v EXCEPT
                 !.i = j,
                 !.bad = IF v.snap[n].cumulative_weight # v.acc
                         THEN @ \cup
                              {[node_id             |-> n,
                                expected_cumulative |-> v.acc,
                                actual_cumulative   |->
                                    v.snap[n].cumulative_weight,
                                difference          |->
                                    v.acc - v.snap[n].cumulative_weight]}
                         ELSE @,
                 !.todo = IF j <= Len(v.nodes)
                          THEN Reads(v.snap, v.nodes[j]) ELSE <<>>,
                 !.acc = IF j <= Len(v.nodes)
                         THEN v.snap[v.nodes[j]].weight ELSE 0]}} : TRUE

\* the validation moves on to v; when no read is left the report is sent
ScanTo(v) ==
    /\ flight' = [flight EXCEPT !.validate = v]
    /\ IF v.pc = "done"
       THEN /\ last' = QueryReturn("ValidateDAGConsistency",
                           ScanResult(Len(v.nodes), v.bad).status,
                           ScanResult(Len(v.nodes), v.bad))
            /\ pre' = v.snap
       ELSE UNCHANGED <<last, pre>>

\* the call of h.DAG.GetAllNodes() and the children map
ValidateBegin ==
    /\ Lock
    /\ flight.validate.pc \in {"idle", "done"}
    /\ nops' = nops + 1
    /\ LET nodes == GetAllNodes(store)
       IN  ScanTo(Settle(
               [pc |-> "scan", snap |-> store, nodes |-> nodes, i |-> 1,
                todo |-> IF Len(nodes) > 0 THEN Reads(store, nodes[1])
                         ELSE <<>>,
                acc |-> IF Len(nodes) > 0 THEN store[nodes[1]].weight ELSE 0,
                bad |-> {}, seen |-> {store}]))
    /\ UNCHANGED <<store, now, origin>>

\* one call of h.DAG.GetNode(childID) by calculateDescendantWeight
ValidateRead ==
    /\ Lock
    /\ flight.validate.pc = "scan"
    /\ LET v == flight.validate
       IN  ScanTo(Settle([v EXCEPT
               !.todo = Tail(@),
               !.acc = @ + store[Head(v.todo)].weight]))
    /\ UNCHANGED <<store, now, origin, nops>>

(***************************************************************************)
(* SpecMux: the calls of concurrent clients of one engine.  Records are    *)
(* added and approved as in SpecFresh, within one reading of the clock,    *)
(* the approvals step by step; in between the queries, the lookup and the  *)
(* validation are called, each when the mutexes it takes let it.           *)
(***************************************************************************)
\* the step budgets of the selections of SpecMux
MuxBudgets == {b \in StepBudgets : b < PerturbEvery}

MuxNext ==
    \/ /\ nops < MaxMuxOps
       /\ Lock
       /\ now' = now
       /\ AddNode(Candidate(NextFresh, <<>>, 0, 0, 0))
    \/ \E ps \in FreshParentLists :
           /\ nops < MaxMuxOps
           /\ now' = now
           /\ ApproveLock(Candidate(NextFresh, ps, 0, 0, 0))
    \/ ApproveIncrement
    \/ ApproveRecompute
    \/ ApproveUnlock
    \/ nops < MaxMuxOps /\ GetHighestWeightNode
    \/ nops < MaxMuxOps /\ GetHighestCumulativeWeightNode
    \/ \E alpha \in Alphas, maxSteps \in MuxBudgets :
           nops < MaxMuxOps /\ TipSelectionMCMC(alpha, maxSteps)
    \/ \E id \in DOMAIN store : nops < MaxMuxOps /\ LockedGetNode(id)
    \/ nops < MaxMuxOps /\ ValidateBegin
    \/ ValidateRead

SpecMux == Init /\ [][MuxNext]_vars

(***************************************************************************)
(* Definitions the properties are stated with.                             *)
(***************************************************************************)
\* the outcomes that reject a call
Rejections ==
    {"AlreadyExists", "SelfReference", "CycleDetected", "ParentNotFound"}

\* the ids reached from n by one or more parent edges
Ancestors(st, n) == markDependenciesAffected(st, ParentsOf(st, n))

\* the stored parent relation has a cycle that runs through ids of S only:
\* a non-empty set of stored ids of S each of which has a parent in the set
StoredCycleAmong(st, S) ==
    \E T \in SUBSET S :
        /\ T # {}
        /\ \A v \in T : v \in DOMAIN st /\ Range(st[v].parents) \cap T # {}

\* the sum of the weights of the records of S, each counted once
RECURSIVE SumWeight(_, _)
SumWeight(st, S) ==
    IF S = {} THEN 0
    ELSE LET x == CHOOSE y \in S : TRUE
         IN  st[x].weight + SumWeight(st, S \ {x})

\* the call just made is an ApproveNode that names a parent not stored
ApproveWithMissingParent ==
    /\ last.op = "ApproveNode"
    /\ \E i \in DOMAIN last.parents : last.parents[i] \notin DOMAIN pre

\* the first id of the last call's parents that was not stored
FirstMissingOfCall ==
    last.parents[CHOOSE i \in DOMAIN last.parents :
                    /\ last.parents[i] \notin DOMAIN pre
                    /\ \A j \in 1..(i - 1) : last.parents[j] \in DOMAIN pre]

\* the store is the chain FreshIds[1] <- FreshIds[2] <- ... <- FreshIds[n]
IsChain(n) ==
    /\ DOMAIN store = {FreshIds[k] : k \in 1..n}
    /\ n >= 1
    /\ store[FreshIds[1]].parents = <<>>
    /\ \A k \in 2..n : store[FreshIds[k]].parents = <<FreshIds[k - 1]>>

(***************************************************************************)
(* C1 (SpecPair).  A second AddNode(id) after a successful AddNode(id),    *)
(* with any calls in between, returns the already-exists error and leaves  *)
(* the store, so the record of id, as it was.                              *)
(***************************************************************************)
C1_DuplicateAddRejected ==
    (/\ last.op = "AddNode"
     /\ last.id \in DOMAIN pre
     /\ OriginOf(last.id) = "AddNode")
        => (last.result = "AlreadyExists" /\ store = pre)

\* a rejected second AddNode of an id that AddNode stored, a call in between
\* having raised the weight of the record
C1_Witness ==
    /\ last.op = "AddNode"
    /\ last.id \in DOMAIN pre
    /\ OriginOf(last.id) = "AddNode"
    /\ last.result = "AlreadyExists"
    /\ pre[last.id].weight > 0
    /\ store[last.id] = pre[last.id]

(***************************************************************************)
(* C2 (SpecChain).  ApproveNode(id, parents) of an id that is already      *)
(* stored fails and the stored record of id keeps its parents, weight,     *)
(* cumulative_weight and created_at.                                       *)
(***************************************************************************)
C2_ReapprovalRejected ==
    (last.op = "ApproveNode" /\ last.id \in DOMAIN pre)
        => (/\ last.result \in Rejections
            /\ store[last.id] = pre[last.id])

(***************************************************************************)
(* C3 (SpecChain).  With a stored chain a <- b <- c (b approves a, c       *)
(* approves b), ApproveNode(a, [c]) is rejected with CycleDetected.        *)
(***************************************************************************)
C3_ClosingTheLoopRejected ==
    (/\ last.op = "ApproveNode"
     /\ last.id \in DOMAIN pre
     /\ \E b \in DOMAIN pre, c \in DOMAIN pre :
            /\ Cardinality({last.id, b, c}) = 3
            /\ last.id \in Range(pre[b].parents)
            /\ b \in Range(pre[c].parents)
            /\ last.parents = <<c>>)
        => last.result = "CycleDetected"

(***************************************************************************)
(* C4 (Spec).  In every reachable state the stored parent relation is      *)
(* acyclic: no stored record is reached from itself by parent edges.       *)
(***************************************************************************)
C4_ParentRelationAcyclic ==
    \A n \in DOMAIN store : n \notin Ancestors(store, n)

(***************************************************************************)
(* C5 (SpecFresh).  After every successful ApproveNode every stored record *)
(* r has cumulative_weight(r) = weight(r) + the sum of weight(d) over the  *)
(* distinct records d that transitively approve r, each counted once.      *)
(***************************************************************************)
C5_CumulativeCountsEachDescendantOnce ==
    (last.op = "ApproveNode" /\ last.result = "OK")
        => \A r \in DOMAIN store :
               store[r].cumulative_weight =
                   store[r].weight + SumWeight(store, Descendants(store, r))

(***************************************************************************)
(* C6 (Spec).  In every reachable state the weight of every stored record  *)
(* is the number of stored records that name it in their parents list.     *)
(***************************************************************************)
C6_WeightCountsApprovers ==
    \A r \in DOMAIN store :
        store[r].weight = Cardinality(ChildrenOf(store, r))

(***************************************************************************)
(* C7 (SpecFresh).  A chain built by AddNode(r1), ApproveNode(r2, [r1]),   *)
(* ..., ApproveNode(rn, [r(n-1)]) has weight(rk) = 1 for k < n,            *)
(* weight(rn) = 0 and cumulative_weight(rk) = n - k for every k.           *)
(***************************************************************************)
C7_ChainWeights ==
    LET n == Cardinality(DOMAIN store)
    IN  IsChain(n)
            => \A k \in 1..n :
                   /\ store[FreshIds[k]].weight = (IF k < n THEN 1 ELSE 0)
                   /\ store[FreshIds[k]].cumulative_weight = n - k

\* the chain of three records of the weight-propagation scenario
C7_Witness ==
    /\ IsChain(3)
    /\ last.op = "ApproveNode"
    /\ last.result = "OK"
    /\ store[FreshIds[1]].cumulative_weight = 2

(***************************************************************************)
(* C8 (Spec).  As claimed: ApproveNode whose parents list holds an id that *)
(* is not stored always returns ParentNotFound naming a missing id, and    *)
(* the number of stored records is unchanged.                              *)
(***************************************************************************)
C8_MissingParentAlwaysParentNotFound ==
    ApproveWithMissingParent
        => (/\ last.result = "ParentNotFound"
            /\ last.missing \in Range(last.parents) \ DOMAIN pre
            /\ Cardinality(DOMAIN store) = Cardinality(DOMAIN pre))

(***************************************************************************)
(* C8 as amended (Spec).  ApproveNode whose parents list holds an id that  *)
(* is not stored writes nothing and returns SelfReference when id is among *)
(* the parents, else CycleDetected when the stored graph has a cycle among *)
(* the listed parents, else ParentNotFound naming the first missing id of  *)
(* the list.                                                               *)
(***************************************************************************)
C8_MissingParentRejected ==
    ApproveWithMissingParent
        => (/\ store = pre
            /\ IF last.id \in Range(last.parents)
               THEN last.result = "SelfReference"
               ELSE IF StoredCycleAmong(pre, Range(last.parents))
               THEN last.result = "CycleDetected"
               ELSE /\ last.result = "ParentNotFound"
                    /\ last.missing = FirstMissingOfCall)

\* ParentNotFound for a missing id listed after a stored one
C8_Witness ==
    /\ ApproveWithMissingParent
    /\ last.result = "ParentNotFound"
    /\ Len(last.parents) = 2
    /\ last.parents[1] \in DOMAIN pre
    /\ last.missing = last.parents[2]

(***************************************************************************)
(* C9 (Spec).  ApproveNode(id, parents) with id among parents returns      *)
(* SelfReference, whatever the other parents and the stored graph: the     *)
(* check wins over the cycle check and the parent-existence check.         *)
(***************************************************************************)
C9_SelfReferenceWins ==
    (last.op = "ApproveNode" /\ last.id \in Range(last.parents))
        => last.result = "SelfReference"

\* SelfReference returned where the cycle check and the parent check would
\* both have rejected: a stored cycle among the parents, a missing parent
C9_Witness ==
    /\ last.op = "ApproveNode"
    /\ last.id \in Range(last.parents)
    /\ last.result = "SelfReference"
    /\ StoredCycleAmong(pre, Range(last.parents))
    /\ ApproveWithMissingParent

(***************************************************************************)
(* C10 (Spec).  Every rejected AddNode or ApproveNode (duplicate id,       *)
(* self-reference, cycle, missing parent) leaves the whole store as it     *)
(* was before the call.                                                    *)
(***************************************************************************)
C10_RejectedCallWritesNothing ==
    (last.op \in {"AddNode", "ApproveNode"} /\ last.result \in Rejections)
        => store = pre

\* a rejection by the cycle check, with stored parents to write to
C10_Witness ==
    /\ last.op = "ApproveNode"
    /\ last.result = "CycleDetected"
    /\ Range(last.parents) \subseteq DOMAIN pre

(***************************************************************************)
(* C11 (SpecHttp).  An approval request with an empty parents list is      *)
(* rejected at the boundary with 'Approved nodes must reference at least   *)
(* one parent node': the engine's ApproveNode is not called, nothing is    *)
(* written and no record is stored for the request's id by it.             *)
(***************************************************************************)
C11_EmptyParentsRejectedAtBoundary ==
    (/\ last.op \in {"ApproveNode", "HandlerApproveNode"}
     /\ last.parents = <<>>)
        => (/\ last.op = "HandlerApproveNode"
            /\ last.result = "NoParents"
            /\ store = pre)

\* an approval request without parents for an id that is not stored, turned
\* away after another record was stored
C11_Witness ==
    /\ last.op = "HandlerApproveNode"
    /\ last.parents = <<>>
    /\ last.result = "NoParents"
    /\ last.id \notin DOMAIN store
    /\ DOMAIN store # {}

(***************************************************************************)
(* C12 (SpecValidate).  After any sequence of successful AddNode and       *)
(* ApproveNode calls, nothing else writing to the store, the validation    *)
(* reports 'consistent' with valid_nodes = total_nodes and no mismatch; on *)
(* the empty graph 'consistent', total_nodes 0 and 100 percent.            *)
(***************************************************************************)
C12_ValidateConsistentAfterCalls ==
    last.op = "ValidateDAGConsistency"
        => (/\ last.result = "consistent"
            /\ last.report.valid_nodes = last.report.total_nodes
            /\ last.report.inconsistencies = {}
            /\ (DOMAIN store = {}
                    => /\ last.report.total_nodes = 0
                       /\ last.report.consistency_percentage
                              = [num |-> 100, den |-> 1]))

\* the descendant-sum value of r: its weight plus the weights of the
\* distinct records that transitively approve it
DescendantSum(st, r) == st[r].weight + SumWeight(st, Descendants(st, r))

(***************************************************************************)
(* C13 (SpecDrift).  When the persisted cumulative_weight of a stored      *)
(* record was overwritten with a value different from its descendant-sum   *)
(* value, the next validation reports 'inconsistent' and lists the record  *)
(* with expected = the descendant-sum value, actual = the value written    *)
(* and difference = expected - actual.                                     *)
(***************************************************************************)
C13_ValidateDetectsDrift ==
    (/\ last.op = "ValidateDAGConsistency"
     /\ last.after.op = "Overwrite"
     /\ store[last.after.id].cumulative_weight
            # DescendantSum(store, last.after.id))
        => (/\ last.result = "inconsistent"
            /\ [node_id             |-> last.after.id,
                expected_cumulative |-> DescendantSum(store, last.after.id),
                actual_cumulative   |->
                    store[last.after.id].cumulative_weight,
                difference          |->
                    DescendantSum(store, last.after.id)
                        - store[last.after.id].cumulative_weight]
                   \in last.report.inconsistencies)

(***************************************************************************)
(* C14 (SpecValidate).  The validation writes nothing to the store, and    *)
(* two calls in a row, nothing in between, return the same total_nodes,    *)
(* valid_nodes, set of mismatches and status.                              *)
(***************************************************************************)
C14_ValidateIdempotent ==
    [][/\ last'.op = "ValidateDAGConsistency" => store' = store
       /\ (/\ last.op = "ValidateDAGConsistency"
           /\ last'.op = "ValidateDAGConsistency")
              => (/\ last'.result = last.result
                  /\ last'.report = last.report)]_vars

\* a second validation in a row, both reporting a mismatch
C14_Witness ==
    /\ last.op = "ValidateDAGConsistency"
    /\ last.after.op = "ValidateDAGConsistency"
    /\ last.result = "inconsistent"
    /\ last.report.inconsistencies # {}
    /\ store = pre

\* r is a tip of st: a stored record that no stored record names as parent
IsTip(st, r) ==
    /\ r \in DOMAIN st
    /\ \A c \in DOMAIN st : r \notin Range(st[c].parents)

(***************************************************************************)
(* C15 (SpecQuery).  On a non-empty store GetHighestWeightNode returns a   *)
(* stored record whose weight is >= that of every stored record, and       *)
(* GetHighestCumulativeWeightNode one whose cumulative_weight is >= that   *)
(* of every stored record; of the records tied for the maximum the first   *)
(* in the order of enumeration is returned.                                *)
(***************************************************************************)
C15_HighestIsFirstMaximum ==
    /\ (last.op = "GetHighestWeightNode" /\ DOMAIN store # {})
           => /\ last.result = "OK"
              /\ last.report.node_id \in DOMAIN store
              /\ last.report.node = store[last.report.node_id]
              /\ \A r \in DOMAIN store :
                     /\ store[r].weight <= last.report.node.weight
                     /\ IdIndex(r) < IdIndex(last.report.node_id)
                            => store[r].weight < last.report.node.weight
    /\ (last.op = "GetHighestCumulativeWeightNode" /\ DOMAIN store # {})
           => /\ last.result = "OK"
              /\ last.report.node_id \in DOMAIN store
              /\ last.report.node = store[last.report.node_id]
              /\ \A r \in DOMAIN store :
                     /\ store[r].cumulative_weight
                            <= last.report.node.cumulative_weight
                     /\ IdIndex(r) < IdIndex(last.report.node_id)
                            => store[r].cumulative_weight
                                   < last.report.node.cumulative_weight

\* roots A and B, C approving B: GetHighestWeightNode returns B; and two
\* records tied for the highest weight
C15_Witness ==
    /\ last.op = "GetHighestWeightNode"
    /\ last.result = "OK"
    /\ DOMAIN store = {"A", "B", "C"}
    /\ store["C"].parents = <<"B">>
    /\ store["A"].parents = <<>>
    /\ last.report.node_id = "B"
    /\ store["A"].weight = store["C"].weight

(***************************************************************************)
(* C16 (SpecQuery).  On a store with no records TipSelectionMCMC,          *)
(* GetHighestWeightNode and GetHighestCumulativeWeightNode fail with the   *)
(* error "no nodes in DAG"; none returns a record or writes to the store.  *)
(***************************************************************************)
C16_EmptyGraphFails ==
    (/\ last.op \in {"TipSelectionMCMC", "GetHighestWeightNode",
                     "GetHighestCumulativeWeightNode"}
     /\ DOMAIN pre = {})
        => (/\ last.result = "no nodes in DAG"
            /\ last.report = NoReport
            /\ store = pre)

\* the highest cumulative weight asked of the empty store
C16_Witness ==
    /\ last.op = "GetHighestCumulativeWeightNode"
    /\ DOMAIN pre = {}
    /\ last.result = "no nodes in DAG"

(***************************************************************************)
(* C17 (SpecQuery).  Whenever a stored record has no children, every       *)
(* record TipSelectionMCMC can return is a tip, whatever the walk and the  *)
(* perturbation draw; on a chain A <- B <- C it returns C.                 *)
(***************************************************************************)
C17_SelectedRecordIsTip ==
    (/\ last.op = "TipSelectionMCMC"
     /\ last.result = "OK"
     /\ \E r \in DOMAIN store : IsTip(store, r))
        => (/\ last.report.node_id \in last.report.possible
            /\ \A n \in last.report.possible : IsTip(store, n))

\* the chain A <- B <- C: after a walk that perturbed twice, C is returned
\* and is the only record that can be
C17_Witness ==
    /\ last.op = "TipSelectionMCMC"
    /\ last.result = "OK"
    /\ IsChain(3)
    /\ last.report.steps > PerturbEvery
    /\ last.report.node_id = "C"
    /\ last.report.possible = {"C"}

\* the graph of C18: root A, B approves A, C approves B, D approves A
IsBranching ==
    /\ DOMAIN store = {"A", "B", "C", "D"}
    /\ store["A"].parents = <<>>
    /\ store["B"].parents = <<"A">>
    /\ store["C"].parents = <<"B">>
    /\ store["D"].parents = <<"A">>

(***************************************************************************)
(* C18 (SpecTree).  On the branching graph (root A, B approves A, C        *)
(* approves B, D approves A) every tip is a possible result of the         *)
(* selection: both C and D can be returned, for every alpha and budget.    *)
(***************************************************************************)
C18_EveryTipIsPossible ==
    (last.op = "TipSelectionMCMC" /\ IsBranching)
        => (/\ last.result = "OK"
            /\ \A t \in {"C", "D"} : t \in last.report.possible)

\* a selection on the branching graph that returns D after a full walk
C18_Witness ==
    /\ last.op = "TipSelectionMCMC"
    /\ IsBranching
    /\ last.report.node_id = "D"
    /\ last.report.steps > PerturbEvery

\* a selection on the branching graph that returns C after a full walk
C18_WitnessOtherTip ==
    /\ last.op = "TipSelectionMCMC"
    /\ IsBranching
    /\ last.report.node_id = "C"
    /\ last.report.steps > PerturbEvery

(***************************************************************************)
(* C19 (SpecQuery).  On a non-empty graph TipSelectionMCMC(alpha,          *)
(* maxSteps) runs exactly maxSteps steps and then returns the current      *)
(* candidate; it returns no error, for every maxSteps >= 0.                *)
(***************************************************************************)
C19_WalkRunsFullBudget ==
    (last.op = "TipSelectionMCMC" /\ DOMAIN store # {})
        => (/\ last.result = "OK"
            /\ last.report.steps = last.report.maxSteps)

\* the keys of the store under which a checkpoint stands
StoredCheckpoints == {k \in DOMAIN store : IsCheckpointValue(store[k])}

(***************************************************************************)
(* C20 (SpecCheckpoint).  GetLatestCheckpoint returns a stored checkpoint  *)
(* whose timestamp is >= that of every stored checkpoint, and the          *)
(* not-found outcome when no checkpoint has been created.                  *)
(***************************************************************************)
C20_LatestCheckpointIsMaximum ==
    last.op = "GetLatestCheckpoint"
        => IF StoredCheckpoints = {}
           THEN last.result = "NotFound"
           ELSE /\ last.result = "OK"
                /\ last.report \in {store[k] : k \in StoredCheckpoints}
                /\ \A k \in StoredCheckpoints :
                       store[k].timestamp <= last.report.timestamp

\* the call just made is one of the three methods that write records
WritingCall == last.op \in {"AddNode", "ApproveNode", "UpdateNode"}

(***************************************************************************)
(* C24 (SpecPair). Across every AddNode, ApproveNode and UpdateNode the weight *)
(* and the cumulative_weight of every record stored before the call do not *)
(* decrease.                                                               *)
(***************************************************************************)
C24_WeightsNeverDecrease ==
    WritingCall
        => \A r \in DOMAIN pre \cap DOMAIN store :
               /\ store[r].weight >= pre[r].weight
               /\ store[r].cumulative_weight >= pre[r].cumulative_weight

(***************************************************************************)
(* C25 (SpecPair). A stored record is never removed, and no AddNode,          *)
(* ApproveNode or UpdateNode changes its parents or its created_at (its id *)
(* is the key it is stored under).                                         *)
(***************************************************************************)
C25_IdentityFieldsFrozen ==
    WritingCall
        => \A r \in DOMAIN pre :
               /\ r \in DOMAIN store
               /\ store[r].parents = pre[r].parents
               /\ store[r].created_at = pre[r].created_at

(***************************************************************************)
(* C26 (Spec).  In every reachable state every id listed in the parents of *)
(* a stored record is the id of a stored record, also for the records      *)
(* AddNode stored.                                                         *)
(***************************************************************************)
C26_ParentsAreStored ==
    \A r \in DOMAIN store : Range(store[r].parents) \subseteq DOMAIN store

(***************************************************************************)
(* C27 (Spec).  A successful ApproveNode(id, parents) raises the weight of *)
(* each distinct declared parent by exactly 1, also when the parent is     *)
(* listed more than once, and leaves the weight of every other record      *)
(* stored before the call (id apart) as it was.                            *)
(***************************************************************************)
C27_EachParentRaisedByOne ==
    (last.op = "ApproveNode" /\ last.result = "OK")
        => \A r \in DOMAIN pre \ {last.id} :
               store[r].weight =
                   pre[r].weight
                       + (IF r \in Range(last.parents) THEN 1 ELSE 0)

(***************************************************************************)
(* C28 (Spec).  After a successful ApproveNode the record just stored has  *)
(* weight 0 and cumulative_weight 0, whatever the candidate carried, and   *)
(* is no mismatch of the validation.                                       *)
(***************************************************************************)
C28_ApprovedRecordStartsAtZero ==
    (last.op = "ApproveNode" /\ last.result = "OK")
        => (/\ store[last.id].weight = 0
            /\ store[last.id].cumulative_weight = 0
            /\ (\A n \in DOMAIN store : ~Diverges(store, n))
                   => \A e \in Inconsistencies(store) : e.node_id # last.id)

C30_WitnessRejected ==
    /\ last.op = "ApproveNode"
    /\ last.result = "CycleDetected"
    /\ StoredCycleAmong(pre, Range(last.parents))

(***************************************************************************)
(* C29 (SpecFault).  Once ApproveNode has written the new record it        *)
(* returns success, whatever fails afterwards (the enumeration of the      *)
(* records, a read or a write of a parent or of an ancestor): the failure  *)
(* is logged and the new record stays stored.                              *)
(***************************************************************************)
C29_PropagationFailuresSwallowed ==
    (last.op = "ApproveNode" /\ "persisted" \in DOMAIN last /\ last.persisted)
        => (/\ last.result = "OK"
            /\ last.id \in DOMAIN store
            /\ store[last.id].parents = last.parents
            /\ store[last.id].weight = 0)

\* a successful approval during which the write of the parent's weight
\* failed: the parent keeps its weight, the new record is stored
C29_Witness ==
    /\ last.op = "ApproveNode"
    /\ "persisted" \in DOMAIN last
    /\ last.persisted
    /\ last.logged
    /\ last.result = "OK"
    /\ last.id \in DOMAIN store
    /\ \E p \in Range(last.parents) : store[p].weight = pre[p].weight

\* a successful approval during which the enumeration of the records failed:
\* nothing but the new record was written
C29_WitnessEnumeration ==
    /\ last.op = "ApproveNode"
    /\ "persisted" \in DOMAIN last
    /\ last.persisted
    /\ last.result = "OK"
    /\ store = PutNode(pre, last.id, store[last.id])
    /\ last.id \notin DOMAIN pre

\* the store as the last call that returned left it
Settled == IF flight.approve.pc = "idle" THEN store ELSE flight.approve.before

\* an approval in flight has written to the store and not yet recomputed
\* every cumulative weight it has to
Torn == flight.approve.pc \in {"increment", "recompute"}

\* the queries that go through every record
AggregateReads ==
    {"GetHighestWeightNode", "GetHighestCumulativeWeightNode",
     "TipSelectionMCMC"}

(***************************************************************************)
(* C21 (SpecMux).  GetHighestWeightNode, GetHighestCumulativeWeightNode    *)
(* and the tip selection run only while no AddNode or ApproveNode holds    *)
(* the mutex: the store they read is never one in which an ApproveNode in  *)
(* flight has written its record or a parent's weight and not yet every    *)
(* recomputed cumulative weight; it is the store as the last call that     *)
(* returned left it.                                                       *)
(***************************************************************************)
C21_AggregateReadsExcluded ==
    [][(/\ nops' # nops
        /\ flight' = flight
        /\ last'.op \in AggregateReads)
           => (/\ flight.mux = "free"
               /\ ~Torn
               /\ pre' = Settled
               /\ store' = store)]_vars

(***************************************************************************)
(* C22 (SpecMux).  A validation that overlaps approvals is serialized      *)
(* against them: its report is the report of the store as it was when the  *)
(* validation began or as one of the approvals that returned during it     *)
(* left it, so it reports no mismatch when all of these are consistent.    *)
(***************************************************************************)
C22_ValidationSerialized ==
    (last.op = "ValidateDAGConsistency" /\ flight.validate.pc = "done")
        => last.report \in
               {ValidationResult(st) : st \in flight.validate.seen}

(***************************************************************************)
(* C23 (SpecMux).  GetNode(id) never returns a record whose weight         *)
(* propagation is partly applied: the record it returns is the one stored  *)
(* with no approval in flight, its value before an approval began or after *)
(* it returned.                                                            *)
(***************************************************************************)
C23_LookupNeverTorn ==
    [][(/\ nops' # nops
        /\ flight' = flight
        /\ last'.op = "GetNode"
        /\ last'.result = "OK")
           => (/\ flight.mux = "free"
               /\ ~Torn
               /\ last'.report.node = Settled[last'.report.node_id])]_vars

\* a lookup that returned a record after the approval that raised its
\* weight, and a later approval standing between its writes to the record
C23_Witness ==
    /\ last.op = "GetNode"
    /\ last.result = "OK"
    /\ last.report.node.weight > 0
    /\ last.report.node.cumulative_weight = last.report.node.weight
    /\ Torn
    /\ store[last.report.node_id].weight > last.report.node.weight
    /\ store[last.report.node_id].cumulative_weight
           = last.report.node.cumulative_weight

(***************************************************************************)
(* C34 (SpecDrift).  In every report of the validation valid_nodes plus    *)
(* the number of listed mismatches is total_nodes, the status is           *)
(* 'consistent' exactly when no mismatch is listed, and every listed       *)
(* mismatch has difference = expected - actual with expected # actual.     *)
(***************************************************************************)
C34_ReportAddsUp ==
    (last.op = "ValidateDAGConsistency" /\ last.report # NoReport)
        => (/\ last.report.valid_nodes
                   + Cardinality(last.report.inconsistencies)
                  = last.report.total_nodes
            /\ last.report.total_nodes = Cardinality(DOMAIN store)
            /\ last.report.inconsistent_nodes
                  = Cardinality(last.report.inconsistencies)
            /\ last.report.status = last.result
            /\ (last.report.status = "consistent")
                  <=> (last.report.inconsistencies = {})
            /\ last.report.status \in {"consistent", "inconsistent"}
            /\ \A e \in last.report.inconsistencies :
                   /\ e.difference
                          = e.expected_cumulative - e.actual_cumulative
                   /\ e.expected_cumulative # e.actual_cumulative
                   /\ e.actual_cumulative
                          = store[e.node_id].cumulative_weight)

\* a report of two records, one of them a mismatch
C34_Witness ==
    /\ last.op = "ValidateDAGConsistency"
    /\ last.report # NoReport
    /\ last.report.total_nodes = 2
    /\ last.report.valid_nodes = 1
    /\ last.report.status = "inconsistent"
    /\ \E e \in last.report.inconsistencies : e.difference < 0

(***************************************************************************)
(* C39 (SpecPair).  UpdateNode on an id that is not stored fails with      *)
(* 'node does not exist' and writes nothing; on a stored id it succeeds    *)
(* and the stored weight and created_at are each the larger of the stored  *)
(* and the incoming value, so neither is ever lowered.                     *)
(***************************************************************************)
C39_UpdateNeverLowers ==
    last.op = "UpdateNode"
        => IF last.id \notin DOMAIN pre
           THEN last.result = "NotExist" /\ store = pre
           ELSE /\ last.result = "OK"
                /\ DOMAIN store = DOMAIN pre
                /\ \A x \in DOMAIN pre \ {last.id} : store[x] = pre[x]
                /\ store[last.id].weight >= pre[last.id].weight
                /\ store[last.id].created_at >= pre[last.id].created_at
                /\ store[last.id].parents = last.parents
                /\ \E node \in UpdateNodeCalls :
                       /\ node.id = last.id
                       /\ node.parents = last.parents
                       /\ store[last.id].weight
                              = Max(node.weight, pre[last.id].weight)
                       /\ store[last.id].cumulative_weight
                              = node.cumulative_weight
                       /\ store[last.id].created_at
                              = Max(node.created_at, pre[last.id].created_at)

\* an update carrying weight 0 and created_at 0 for a record stored with
\* weight 1 and created_at 1: the cumulative weight is taken from the
\* incoming record, the weight and the creation time are kept
C39_Witness ==
    /\ last.op = "UpdateNode"
    /\ last.result = "OK"
    /\ pre[last.id].weight = 1
    /\ pre[last.id].cumulative_weight = 1
    /\ pre[last.id].created_at = 1
    /\ store[last.id].cumulative_weight = 0
    /\ store[last.id].weight = 1
    /\ store[last.id].created_at = 1

\* an update of an id that is not stored
C39_WitnessAbsent ==
    /\ last.op = "UpdateNode"
    /\ last.result = "NotExist"
    /\ store # << >>
    /\ last.id \notin DOMAIN store

(***************************************************************************)
(* Calls with pairwise distinct ids.  Every call names the next unused id; *)
(* the candidate carries whatever parents, weight and cumulative weight    *)
(* the request body held (Handler.AddNode and Handler.ApproveNode decode   *)
(* the whole body into the node).                                          *)
(***************************************************************************)
MaxDistinctRecords == 3
MaxCarried == 2

CarriedValues == 0 .. MaxCarried

DistinctMayBuild ==
    /\ Cardinality(DOMAIN store) < MaxDistinctRecords
    /\ nops < MaxDistinctRecords
    /\ now' = now

DistinctNext ==
    \/ \E ps \in QueryAddParentLists, w \in CarriedValues :
           DistinctMayBuild /\ AddNode(Candidate(NextFresh, ps, w, w, 0))
    \/ \E ps \in FreshParentLists, w \in CarriedValues :
           DistinctMayBuild /\ ApproveNode(Candidate(NextFresh, ps, w, w, 0))
    \/ \E alpha \in Alphas, maxSteps \in StepBudgets :
           QueryMayAsk /\ TipSelectionMCMC(alpha, maxSteps)

SpecDistinct == Init /\ [][DistinctNext]_vars

\* every stored edge: the parent's cumulative weight bounds the child's and
\* the parent's own weight
EdgesOrdered ==
    \A c \in DOMAIN store :
        \A i \in DOMAIN store[c].parents :
            LET p == store[c].parents[i]
            IN  p \in DOMAIN store
                    => /\ store[p].cumulative_weight
                              >= store[c].cumulative_weight
                       /\ store[p].cumulative_weight >= store[p].weight
                       /\ store[p].weight >= 0

\* some record without parents has the greatest cumulative weight
RootAttainsMaximum ==
    store # << >>
        => \E r \in DOMAIN store :
               /\ store[r].parents = << >>
               /\ \A x \in DOMAIN store :
                      store[r].cumulative_weight
                          >= store[x].cumulative_weight

(***************************************************************************)
(* C36 (SpecDistinct).  After AddNode and ApproveNode calls with pairwise  *)
(* distinct ids every stored edge has cumulative_weight(parent) >=         *)
(* cumulative_weight(child) and cumulative_weight(parent) >=               *)
(* weight(parent) >= 0, and some record without parents attains the        *)
(* greatest cumulative weight.                                             *)
(***************************************************************************)
C36_CumulativeWeightGrowsTowardsRoots == EdgesOrdered /\ RootAttainsMaximum

(***************************************************************************)
(* C37 (SpecDistinct).  After AddNode and ApproveNode calls with pairwise  *)
(* distinct ids every tip has weight 0 and the cumulative weight the walk  *)
(* computes for it is 0, so for any two tips the difference the acceptance *)
(* probability is computed from is 0 and no proposal can be rejected; the  *)
(* record the walk returns is such a tip.                                  *)
(***************************************************************************)
C37_TipsWeighNothing ==
    /\ \A t \in Tips(store) :
           /\ store[t].weight = 0
           /\ calculateCumulativeWeight(store, t) = 0
    /\ \A alpha \in Alphas :
           \A cur \in Tips(store) :
               \A proposed \in Tips(store) :
                   alpha * (calculateCumulativeWeight(store, proposed)
                                - calculateCumulativeWeight(store, cur)) = 0
    /\ (/\ last.op = "TipSelectionMCMC"
        /\ last.result = "OK"
        /\ Tips(store) # {})
           => /\ last.report.possible \subseteq Tips(store)
              /\ last.report.node.weight = 0
              /\ calculateCumulativeWeight(store, last.report.node_id) = 0

\* a walk of at least one step over two tips, one of them stored with a
\* cumulative weight of its own, below a record of positive weight
C37_Witness ==
    /\ last.op = "TipSelectionMCMC"
    /\ last.result = "OK"
    /\ last.report.steps >= 1
    /\ Cardinality(Tips(store)) = 2
    /\ Cardinality(last.report.possible) = 2
    /\ \E t \in Tips(store) : store[t].cumulative_weight > 0
    /\ \E x \in DOMAIN store : store[x].weight > 0

(***************************************************************************)
(* C35 (SpecCheckpoint).  Records and checkpoints do not affect each       *)
(* other: persisting a checkpoint leaves the list GetAllNodes returns      *)
(* unchanged (same records, same count), storing a record leaves the       *)
(* result of GetLatestCheckpoint unchanged, and every record GetAllNodes   *)
(* returns is a record that was stored.                                    *)
(***************************************************************************)
C35_RecordsAndCheckpointsIndependent ==
    /\ last.op = "PutCheckpoint"
           => RepoGetAllNodes(store) = RepoGetAllNodes(pre)
    /\ (last.op = "AddNode" /\ last.result = "OK")
           => LatestFrom(store, IterKeys(store), 1, NoCheckpoint)
                  = LatestFrom(pre, IterKeys(pre), 1, NoCheckpoint)
    /\ last.op = "GetAllNodes"
           => \A i \in DOMAIN last.report.nodes :
                  /\ last.report.nodes[i].id \in DOMAIN store
                  /\ ~ IsCheckpointValue(store[last.report.nodes[i].id])

(***************************************************************************)
(* The forward walk: TipSelectionMCMC of src/dag/dag.go.  It starts on the *)
(* earliest created record that has children (any record when none has)   *)
(* and moves from the record it stands on to one of its children until it  *)
(* stands on a record without children.  Every child has the weight        *)
(* exp(alpha * cumWeight) > 0, so every child can be the one chosen.       *)
(* computeCum recurses over the child edges and stores its result only     *)
(* after the recursion, so a cycle among them overflows the stack before   *)
(* the walk starts.                                                        *)
(***************************************************************************)
MaxForwardRecords == 3
MaxForwardSteps == 3

ForwardBudgets == 0 .. MaxForwardSteps

\* the start record: the first record of the snapshot, among those with
\* children, of least created_at; any record when none has children
ForwardStarts(st) ==
    LET inner == {n \in DOMAIN st : ChildrenOf(st, n) # {}}
        first == {n \in inner :
                     \A m \in inner :
                         \/ st[n].created_at < st[m].created_at
                         \/ /\ st[n].created_at = st[m].created_at
                            /\ IdIndex(n) <= IdIndex(m)}
    IN  IF inner = {} THEN DOMAIN st ELSE first

\* a variant of ForwardExceeded: the record stood on is returned
ForwardExceededSoft(cur, path) ==
    [result |-> "OK", node_id |-> cur, path |-> path]

\* steps > maxSteps: the error, and no record
ForwardExceeded(cur, path) ==
    [result |-> "mcmc tip selection exceeded max steps", node_id |-> "-",
     path |-> path]

\* the loop of the walk; path holds the records stood on in the passes
\* that went past the bound check
RECURSIVE ForwardWalk(_, _, _, _)
ForwardWalk(st, cur, path, maxSteps) ==
    IF Len(path) + 1 > maxSteps THEN {ForwardExceeded(cur, path)}
    ELSE IF ChildrenOf(st, cur) = {}
         THEN {[result |-> "OK", node_id |-> cur,
                path |-> Append(path, cur)]}
         ELSE UNION {ForwardWalk(st, c, Append(path, cur), maxSteps) :
                        c \in ChildrenOf(st, cur)}

ForwardTipSelectionMCMC(alpha, maxSteps) ==
    /\ nops' = nops + 1
    /\ flight' = flight
    /\ pre' = store
    /\ IF DOMAIN store = {}
       THEN last' = QueryReturn("ForwardTipSelectionMCMC", "no nodes in DAG",
                                NoReport)
       ELSE IF \E n \in DOMAIN store : Diverges(store, n)
       THEN last' = QueryReturn("ForwardTipSelectionMCMC", "StackOverflow",
                                NoReport)
       ELSE \E start \in ForwardStarts(store) :
                \E out \in ForwardWalk(store, start, << >>, maxSteps) :
                    last' = QueryReturn("ForwardTipSelectionMCMC", out.result,
                                [node_id  |-> out.node_id,
                                 start    |-> start,
                                 path     |-> out.path,
                                 maxSteps |-> maxSteps])
    /\ UNCHANGED <<store, now, origin>>

ForwardMayBuild ==
    /\ Cardinality(DOMAIN store) < MaxForwardRecords
    /\ nops < MaxForwardRecords
    /\ now' = now

ForwardNext ==
    \/ \E ps \in QueryAddParentLists :
           ForwardMayBuild /\ AddNode(Candidate(NextFresh, ps, 0, 0, 0))
    \/ \E ps \in FreshParentLists :
           ForwardMayBuild /\ ApproveNode(Candidate(NextFresh, ps, 0, 0, 0))
    \/ \E alpha \in Alphas, maxSteps \in ForwardBudgets :
           QueryMayAsk /\ ForwardTipSelectionMCMC(alpha, maxSteps)

SpecForward == Init /\ [][ForwardNext]_vars

(***************************************************************************)
(* C38 (SpecForward).  The forward walk fails hard when the step bound is  *)
(* exceeded: a walk that went through maxSteps passes, each on a record    *)
(* that has children, returns the 'exceeded max steps' error and no        *)
(* record; a walk that returns a record went through at most maxSteps      *)
(* passes and the record it returns has no children.                       *)
(***************************************************************************)
C38_ForwardWalkFailsHard ==
    (last.op = "ForwardTipSelectionMCMC" /\ last.report # NoReport)
        => LET r == last.report
           IN  /\ last.result
                      \in {"OK", "mcmc tip selection exceeded max steps"}
               /\ Len(r.path) <= r.maxSteps
               /\ \A i \in DOMAIN r.path :
                      /\ r.path[i] \in DOMAIN store
                      /\ i = 1 => r.path[i] = r.start
                      /\ i > 1 => r.path[i] \in ChildrenOf(store, r.path[i - 1])
                      /\ i < Len(r.path) => ChildrenOf(store, r.path[i]) # {}
               /\ (/\ Len(r.path) = r.maxSteps
                   /\ \A i \in DOMAIN r.path :
                          ChildrenOf(store, r.path[i]) # {})
                      => /\ last.result
                                = "mcmc tip selection exceeded max steps"
                         /\ r.node_id = "-"
               /\ last.result = "OK"
                      => /\ r.node_id \in DOMAIN store
                         /\ ChildrenOf(store, r.node_id) = {}
                         /\ r.path # << >>
                         /\ r.node_id = r.path[Len(r.path)]
               /\ last.result = "mcmc tip selection exceeded max steps"
                      => /\ r.node_id = "-"
                         /\ Len(r.path) = r.maxSteps

\* a walk with bound 2 down a chain of three records: two passes on records
\* with children, then the error
C38_Witness ==
    /\ last.op = "ForwardTipSelectionMCMC"
    /\ last.result = "mcmc tip selection exceeded max steps"
    /\ last.report.maxSteps = 2
    /\ Len(last.report.path) = 2
    /\ \E t \in DOMAIN store :
           /\ ChildrenOf(store, t) = {}
           /\ t \in ChildrenOf(store, last.report.path[2])

\* a walk that returned a tip two edges below its start, within its bound
C38_WitnessReturned ==
    /\ last.op = "ForwardTipSelectionMCMC"
    /\ last.result = "OK"
    /\ Len(last.report.path) = 3
    /\ last.report.maxSteps = 3

(***************************************************************************)
(* Two clients.  Each client calls one operation of the engine or of the   *)
(* handler and runs it step by step: flight.calls[c] is the position of    *)
(* client c in its call (pc), the call (op, node, arg), the store at the   *)
(* moment of the call (at), whether the call overlapped the other          *)
(* client's (overlap), what it returned (result) and the locals of the     *)
(* call (work).  flight.mux is the holder of d.mux and flight.sync the     *)
(* holder of h.syncMutex, "free" when nobody holds it.  The records are    *)
(* built, before the clients call, by AddNode and ApproveNode calls with   *)
(* unused ids, so the stored graph is acyclic.                             *)
(***************************************************************************)
MaxClientRecords == 2

Calls == flight.calls

InFlight(c) == Calls[c].pc \notin {"idle", "returned"}

NoneCalled == \A c \in Clients : Calls[c].pc = "idle"

\* the id of the record client c approves
ReservedId(c) == IF c = "c1" THEN "E" ELSE "F"

NoNode == Candidate("-", << >>, 0, 0, 0)

ClientCalls(c) ==
    {[op |-> "AddNode", node |-> Candidate(NextFresh, << >>, 0, 0, 0),
      arg |-> 0]}
        \cup {[op |-> "ApproveNode",
               node |-> Candidate(ReservedId(c), ps, 0, 0, 0), arg |-> 0] :
                  ps \in FreshParentLists}
        \cup {[op |-> "GetNode", node |-> Candidate(id, << >>, 0, 0, 0),
               arg |-> 0] : id \in DOMAIN store}
        \cup {[op |-> o, node |-> NoNode, arg |-> 0] :
                  o \in {"GetAllNodes", "GetHighestWeightNode",
                         "GetHighestCumulativeWeightNode",
                         "ValidateDAGConsistency"}}
        \cup {[op |-> "TipSelectionMCMC", node |-> NoNode, arg |-> b] :
                  b \in MuxBudgets}

\* the call of client c moved to position pc
Moved(c, pc, result, work) ==
    [Calls[c] EXCEPT !.pc = pc, !.result = result, !.work = work]

\* client c enters the function it calls
Call(c, call) ==
    /\ Calls[c].pc = "idle"
    /\ flight' = [flight EXCEPT !.calls =
           [d \in Clients |->
               IF d = c
               THEN [pc |-> "called", op |-> call.op, node |-> call.node,
                     arg |-> call.arg, at |-> store,
                     overlap |-> \E e \in Clients \ {c} : InFlight(e),
                     result |-> "-", work |-> Idle]
               ELSE IF InFlight(d) THEN [Calls[d] EXCEPT !.overlap = TRUE]
               ELSE Calls[d]]]
    /\ UNCHANGED <<store, pre, now, last, origin, nops>>

\* a variant of Unlock: the mutex stays with the client that returned
UnlockNever(c) == c

\* the holder of d.mux after the deferred d.mux.Unlock() of client c
Unlock(c) == "free"

\* AddNode after d.mux.Lock(): the lookup of the id
AddNodeCheck(c) ==
    /\ Calls[c].pc = "called"
    /\ Calls[c].op = "AddNode"
    /\ flight' = [flight EXCEPT
           !.mux = c,
           !.calls[c] = Moved(c, "checked", "-",
                              [exists |-> AddNodeExists(store, Calls[c].node)])]
    /\ UNCHANGED <<store, pre, now, last, origin, nops>>

\* a variant of AddNodeLocked: the lookup is made without the mutex
AddNodeUnlocked(c) == AddNodeCheck(c)

\* AddNode: d.mux.Lock() and the lookup
AddNodeLocked(c) == Lock /\ AddNodeCheck(c)

\* AddNode: the error, or the write of the record; d.mux.Unlock()
AddNodeWrite(c) ==
    /\ Calls[c].pc = "checked"
    /\ IF Calls[c].work.exists
       THEN /\ flight' = [flight EXCEPT
                   !.mux = Unlock(c),
                   !.calls[c] = Moved(c, "returned", "AlreadyExists", Idle)]
            /\ store' = store
       ELSE /\ store' = PutNode(store, Calls[c].node.id,
                            Node(Calls[c].node.parents, 0, 0, now))
            /\ flight' = [flight EXCEPT
                   !.mux = Unlock(c),
                   !.calls[c] = Moved(c, "returned", "OK", Idle)]
    /\ UNCHANGED <<pre, now, last, origin, nops>>

\* ApproveNode after d.mux.Lock(): the checks, the write of the new record
\* and the maps of propagateWeights (snap)
ApproveNodeEnter(c) ==
    /\ Calls[c].pc = "called"
    /\ Calls[c].op = "ApproveNode"
    /\ LET node == Calls[c].node
       IN  IF SelfReference(node)
           THEN /\ flight' = [flight EXCEPT !.calls[c] =
                       Moved(c, "returned", "SelfReference", Idle)]
                /\ store' = store
           ELSE IF checkForCircularReferences(store, node.parents)
           THEN /\ flight' = [flight EXCEPT !.calls[c] =
                       Moved(c, "returned", "CycleDetected", Idle)]
                /\ store' = store
           ELSE IF MissingParents(store, node.parents) # {}
           THEN /\ flight' = [flight EXCEPT !.calls[c] =
                       Moved(c, "returned", "ParentNotFound", Idle)]
                /\ store' = store
           ELSE /\ store' = PutNode(store, node.id,
                                Node(node.parents, 0, node.cumulative_weight,
                                     now))
                /\ flight' = [flight EXCEPT
                       !.mux = c,
                       !.calls[c] = Moved(c, "read", "-",
                                          [i |-> 1, snap |-> store'])]
    /\ UNCHANGED <<pre, now, last, origin, nops>>

\* a variant of ApproveNodeLocked: the call runs without the mutex
ApproveNodeUnlocked(c) == ApproveNodeEnter(c)

\* ApproveNode: d.mux.Lock() and what follows it up to propagateWeights
ApproveNodeLocked(c) == Lock /\ ApproveNodeEnter(c)

\* propagateWeights: parentNode, err := d.repo.GetNode(pid)
ApproveNodeRead(c) ==
    /\ Calls[c].pc = "read"
    /\ LET w == Calls[c].work
       IN  flight' = [flight EXCEPT !.calls[c] =
               Moved(c, "write", "-",
                     [i |-> w.i, snap |-> w.snap,
                      parentNode |-> store[Calls[c].node.parents[w.i]]])]
    /\ UNCHANGED <<store, pre, now, last, origin, nops>>

\* propagateWeights: parentNode.Weight++ and d.repo.PutNode(parentNode)
ApproveNodeWrite(c) ==
    /\ Calls[c].pc = "write"
    /\ LET w   == Calls[c].work
           pid == Calls[c].node.parents[w.i]
       IN  /\ store' = PutNode(store, pid,
                           [w.parentNode EXCEPT !.weight = @ + 1])
           /\ flight' = [flight EXCEPT !.calls[c] =
                  IF w.i < Len(Calls[c].node.parents)
                  THEN Moved(c, "read", "-",
                             [i |-> w.i + 1, snap |-> w.snap])
                  ELSE Moved(c, "recompute", "-",
                             [i |-> w.i, snap |-> w.snap])]
    /\ UNCHANGED <<pre, now, last, origin, nops>>

\* propagateWeights: the affected ids, marked along the parents map of the
\* snapshot, are recomputed; ApproveNode returns nil; d.mux.Unlock().  While
\* d.mux is held the children map of the snapshot is that of the store.
ApproveNodeReturn(c) ==
    /\ Calls[c].pc = "recompute"
    /\ store' = updateCumulativeWeight(store,
                    AffectedNodes(Calls[c].work.snap, Calls[c].node.parents))
    /\ flight' = [flight EXCEPT
           !.mux = Unlock(c),
           !.calls[c] = Moved(c, "returned", "OK", Idle)]
    /\ UNCHANGED <<pre, now, last, origin, nops>>

\* DAG.GetNode: lock, lookup, unlock
ClientGetNode(c) ==
    /\ Lock
    /\ Calls[c].pc = "called"
    /\ Calls[c].op = "GetNode"
    /\ flight' = [flight EXCEPT !.calls[c] =
           Moved(c, "returned",
                 IF Calls[c].node.id \in DOMAIN store THEN "OK"
                 ELSE "NotFound", Idle)]
    /\ UNCHANGED <<store, pre, now, last, origin, nops>>

\* DAG.GetAllNodes: lock, iteration, unlock
ClientGetAllNodes(c) ==
    /\ Lock
    /\ Calls[c].pc = "called"
    /\ Calls[c].op = "GetAllNodes"
    /\ flight' = [flight EXCEPT !.calls[c] =
           Moved(c, "returned", "OK",
                 [nodes |-> GetAllNodes(store)])]
    /\ UNCHANGED <<store, pre, now, last, origin, nops>>

\* DAG.GetHighestWeightNode and DAG.GetHighestCumulativeWeightNode: one
\* iteration of the store, no mutex
ClientHighest(c) ==
    /\ Calls[c].pc = "called"
    /\ Calls[c].op \in {"GetHighestWeightNode",
                        "GetHighestCumulativeWeightNode"}
    /\ LET nodes == GetAllNodes(store)
       IN  flight' = [flight EXCEPT !.calls[c] =
               IF Len(nodes) = 0
               THEN Moved(c, "returned", "no nodes in DAG", Idle)
               ELSE Moved(c, "returned", "OK",
                        [node_id |->
                            IF Calls[c].op = "GetHighestWeightNode"
                            THEN HighestWeight(store, nodes, 2, nodes[1])
                            ELSE HighestCumulativeWeight(store, nodes, 2,
                                                         nodes[1])])]
    /\ UNCHANGED <<store, pre, now, last, origin, nops>>

\* DAG.TipSelectionMCMC: one iteration of the store, no mutex, then the
\* walk; a walk that cannot end leaves the client in the call for ever
ClientTipSelectionMCMC(c) ==
    /\ Calls[c].pc = "called"
    /\ Calls[c].op = "TipSelectionMCMC"
    /\ IF DOMAIN store = {}
       THEN flight' = [flight EXCEPT !.calls[c] =
                Moved(c, "returned", "no nodes in DAG", Idle)]
       ELSE \E alpha \in Alphas :
            \E out \in {TipOutcomes(store, alpha, Calls[c].arg)} :
                \/ /\ out.nodes # {}
                   /\ flight' = [flight EXCEPT !.calls[c] =
                          Moved(c, "returned", "OK", Idle)]
                \/ /\ out.loops
                   /\ flight' = [flight EXCEPT !.calls[c] =
                          Moved(c, "hung", "-", Idle)]
    /\ UNCHANGED <<store, pre, now, last, origin, nops>>

\* Handler.ValidateDAGConsistency: h.syncMutex.Lock()
ClientValidateLock(c) ==
    /\ flight.sync = "free"
    /\ Calls[c].pc = "called"
    /\ Calls[c].op = "ValidateDAGConsistency"
    /\ flight' = [flight EXCEPT
           !.sync = c,
           !.calls[c] = Moved(c, "snapshot", "-", Idle)]
    /\ UNCHANGED <<store, pre, now, last, origin, nops>>

\* the validation of client c moves on to v; when no read is left the
\* report is sent and the deferred h.syncMutex.Unlock() runs
ClientScanTo(c, v) ==
    flight' = [flight EXCEPT
        !.sync = IF v.pc = "done" THEN "free" ELSE c,
        !.calls[c] =
            IF v.pc = "done"
            THEN Moved(c, "returned",
                       ScanResult(Len(v.nodes), v.bad).status,
                       ScanResult(Len(v.nodes), v.bad))
            ELSE Moved(c, "scan", "-", v)]

\* the call of h.DAG.GetAllNodes() and the children map
ClientValidateBegin(c) ==
    /\ Lock
    /\ Calls[c].pc = "snapshot"
    /\ LET nodes == GetAllNodes(store)
       IN  \E v \in {Settle(
               [pc |-> "scan", snap |-> store, nodes |-> nodes, i |-> 1,
                todo |-> IF Len(nodes) > 0 THEN Reads(store, nodes[1])
                         ELSE <<>>,
                acc |-> IF Len(nodes) > 0 THEN store[nodes[1]].weight ELSE 0,
                bad |-> {}])} : ClientScanTo(c, v)
    /\ UNCHANGED <<store, pre, now, last, origin, nops>>

\* one call of h.DAG.GetNode(childID) by calculateDescendantWeight
ClientValidateRead(c) ==
    /\ Lock
    /\ Calls[c].pc = "scan"
    /\ LET v == Calls[c].work
       IN  \E u \in {Settle([v EXCEPT
               !.todo = Tail(@),
               !.acc = @ + store[Head(v.todo)].weight])} : ClientScanTo(c, u)
    /\ UNCHANGED <<store, pre, now, last, origin, nops>>

\* the steps client c takes once it has called
ClientStep(c) ==
    \/ AddNodeLocked(c)
    \/ AddNodeWrite(c)
    \/ ApproveNodeLocked(c)
    \/ ApproveNodeRead(c)
    \/ ApproveNodeWrite(c)
    \/ ApproveNodeReturn(c)
    \/ ClientGetNode(c)
    \/ ClientGetAllNodes(c)
    \/ ClientHighest(c)
    \/ ClientTipSelectionMCMC(c)
    \/ ClientValidateLock(c)
    \/ ClientValidateBegin(c)
    \/ ClientValidateRead(c)

ClientMayBuild ==
    /\ NoneCalled
    /\ Cardinality(DOMAIN store) < MaxClientRecords
    /\ now' = now

ClientNext ==
    \/ ClientMayBuild /\ AddNode(Candidate(NextFresh, <<>>, 0, 0, 0))
    \/ \E ps \in FreshParentLists :
           ClientMayBuild /\ ApproveNode(Candidate(NextFresh, ps, 0, 0, 0))
    \/ \E c \in Clients : \E call \in ClientCalls(c) : Call(c, call)
    \/ \E c \in Clients : ClientStep(c)

SpecClients == Init /\ [][ClientNext]_vars

\* fair scheduling: a client whose next step stays possible takes it (a
\* goroutine that can run is scheduled, and sync.Mutex hands the mutex to a
\* goroutine that waits for it once it is free).  Every client makes one
\* call, so a step that is possible again and again stays possible.
SpecClientsFair ==
    SpecClients /\ \A c \in Clients : WF_vars(ClientStep(c))

\* clients c and d have both returned from calls of op
BothReturned(c, d, op) ==
    /\ c # d
    /\ Calls[c].pc = "returned"
    /\ Calls[d].pc = "returned"
    /\ Calls[c].op = op
    /\ Calls[d].op = op

(***************************************************************************)
(* C31 (SpecClients).  Two concurrent AddNode calls with the same id never *)
(* both succeed: once both have returned, one has returned success and the *)
(* other the already-exists error, and the record is stored.               *)
(***************************************************************************)
C31_OneAddNodeWins ==
    \A c \in Clients :
        \A d \in Clients :
            (/\ BothReturned(c, d, "AddNode")
             /\ Calls[c].node.id = Calls[d].node.id)
                => /\ {Calls[c].result, Calls[d].result}
                          = {"OK", "AlreadyExists"}
                   /\ Calls[c].node.id \in DOMAIN store

\* two AddNode calls of the same id, in flight together, have returned
C31_Witness ==
    /\ BothReturned("c1", "c2", "AddNode")
    /\ Calls["c1"].node.id = Calls["c2"].node.id
    /\ Calls["c1"].overlap
    /\ Calls["c2"].overlap
    /\ Calls["c1"].node.id \notin DOMAIN Calls["c1"].at
    /\ Calls["c2"].result = "OK"

\* the least of a and b
Min(a, b) == IF a < b THEN a ELSE b

(***************************************************************************)
(* C32 (SpecClients).  Two concurrent successful ApproveNode calls with    *)
(* distinct new ids that name the same parent lose no update: once both    *)
(* have returned, the parent's weight is 2 more than before the calls, and *)
(* the stored cumulative_weight of the parent and of each of its ancestors *)
(* is the value recomputed from the stored graph.                          *)
(***************************************************************************)
C32_NoLostApproval ==
    \A c \in Clients :
        \A d \in Clients :
            (/\ BothReturned(c, d, "ApproveNode")
             /\ Calls[c].result = "OK"
             /\ Calls[d].result = "OK")
                => \A p \in Range(Calls[c].node.parents)
                               \cap Range(Calls[d].node.parents) :
                       /\ store[p].weight
                              = Min(Calls[c].at[p].weight,
                                    Calls[d].at[p].weight) + 2
                       /\ \A x \in {p} \cup Ancestors(store, p) :
                              store[x].cumulative_weight
                                  = expectedCumulative(store, x)

\* two approvals of B, in flight together, have returned; B has the
\* ancestor A
C32_Witness ==
    /\ BothReturned("c1", "c2", "ApproveNode")
    /\ Calls["c1"].overlap
    /\ Calls["c2"].overlap
    /\ Calls["c1"].node.parents = <<"B">>
    /\ Calls["c2"].node.parents = <<"B">>
    /\ "A" \in Ancestors(store, "B")
    /\ store["B"].weight = 2
    /\ store["A"].cumulative_weight = 3

C33_WitnessMixed ==
    /\ Calls["c1"].pc = "returned"
    /\ Calls["c2"].pc = "returned"
    /\ Calls["c1"].op = "TipSelectionMCMC"
    /\ Calls["c1"].arg = 1
    /\ Calls["c2"].op = "ApproveNode"
    /\ Calls["c1"].overlap

====
